---- MODULE Spec2Model ----
(***************************************************************************)
(* Connect-M board engine (src/src/connectm.py): the ConnectM class, its   *)
(* drop / drop_wins / can_drop / reset operations and the win scan         *)
(* _winner_at, as a state machine over the object's fields; and the bots   *)
(* and simulate of src/src/bot.py as callers of the board.                 *)
(***************************************************************************)
EXTENDS Integers, FiniteSets, Sequences, TLC

\* ------------------------------------------------------------------ bounds
\* Largest board dimensions the constructor is given.
MaxRows == 3
MaxCols == 3
\* Largest board area (rows * cols) the constructor is given.
MaxCells == 9
\* How far outside [0, num_cols) the column arguments range.
OutOfRange == 1

\* ------------------------------------------------------------------ values
\* Python's None.
None == "None"

\* PieceColor = Enum("PieceColor", ["RED", "YELLOW"])
PieceColor == {"RED", "YELLOW"}

\* The fields of a ConnectM object, and the call the caller has just made on
\* it: last = [op, col, color, ret], ret the value returned or the exception
\* raised; op is "idle" once the caller has taken the result. last.was is
\* what winner and done read when the call was made. pc is the position of
\* a caller that runs a fixed sequence of statements (the number of
\* statements executed, -1 once an exception has ended it); a caller that
\* makes arbitrary calls stays at 0. locals holds the local variables of
\* the caller, for the callers that have some.
VARIABLES _nrows, _ncols, _m, _board, _top, _winner, last, pc, locals

vars == <<_nrows, _ncols, _m, _board, _top, _winner, last, pc, locals>>

\* ------------------------------------------------------------------ helpers
\* A caller without local variables.
NoLocals == <<>>

\* Python's bool as it is reported in last.ret.
BoolRet(b) == IF b THEN "True" ELSE "False"

\* Python list indexing lst[i] on a list of length len: the position read, a
\* negative index counting from the end; -1 stands for IndexError.
ListIndex(len, i) ==
    IF 0 <= i /\ i < len THEN i
    ELSE IF -len <= i /\ i < 0 THEN len + i
    ELSE -1

\* num_rows, num_cols, m properties
num_rows == _nrows
num_cols == _ncols
m == _m

\* winner property
winner == _winner

\* _get(row, col) on board b: rows are numbered from 0 at the bottom; None
\* for coordinates off the board.
_get(b, row, col) ==
    IF ~(0 <= row /\ row < _nrows) THEN None
    ELSE IF ~(0 <= col /\ col < _ncols) THEN None
    ELSE b[(_nrows - 1) - row][col]

\* Mutant of _set: the row is not counted from the bottom.
_set_from_top(b, row, col, color) ==
    IF ~(0 <= row /\ row < _nrows) THEN [ok |-> FALSE, board |-> b]
    ELSE IF ~(0 <= col /\ col < _ncols) THEN [ok |-> FALSE, board |-> b]
    ELSE [ok |-> TRUE, board |-> [b EXCEPT ![row][col] = color]]

\* _set(row, col, color) on board b: ok is FALSE when an assert fails (and
\* nothing is written), else board is b with the one cell written.
_set(b, row, col, color) ==
    IF ~(0 <= row /\ row < _nrows) THEN [ok |-> FALSE, board |-> b]
    ELSE IF ~(0 <= col /\ col < _ncols) THEN [ok |-> FALSE, board |-> b]
    ELSE [ok |-> TRUE,
          board |-> [b EXCEPT ![(_nrows - 1) - row][col] = color]]

\* The eight directions of _winner_at.
dirs == {<<1, -1>>, <<1, 0>>, <<1, 1>>,
         <<0, -1>>,           <<0, 1>>,
         <<-1, -1>>, <<-1, 0>>, <<-1, 1>>}

\* The inner loop of _winner_at: from (ir, ic), at most `steps` steps in
\* direction (dr, dc), counting the pieces equal to origin_piece and
\* stopping at the first that differs.
RECURSIVE adj_count(_, _, _, _, _, _, _)
adj_count(b, origin_piece, ir, ic, dr, dc, steps) ==
    IF steps <= 0 THEN 0
    ELSE IF _get(b, ir + dr, ic + dc) = origin_piece
         THEN 1 + adj_count(b, origin_piece, ir + dr, ic + dc, dr, dc, steps - 1)
         ELSE 0

\* Mutant of adj_dir: the loop runs over range(m - 2).
adj_dir_short(b, row, col, dr, dc) ==
    adj_count(b, _get(b, row, col), row, col, dr, dc, _m - 2)

\* adj_dir[(dr, dc)] of _winner_at(row, col), the count capped at m - 1.
adj_dir(b, row, col, dr, dc) ==
    adj_count(b, _get(b, row, col), row, col, dr, dc, _m - 1)

\* Mutant of _winner_at: the diagonal \ check pairs (+1, -1) with (+1, +1).
_winner_at_bad_pair(b, row, col) ==
    \/ \E d \in dirs : adj_dir(b, row, col, d[1], d[2]) = _m - 1
    \/ adj_dir(b, row, col, 0, -1) + 1 + adj_dir(b, row, col, 0, 1) >= _m
    \/ adj_dir(b, row, col, 1, 0) + 1 + adj_dir(b, row, col, -1, 0) >= _m
    \/ adj_dir(b, row, col, 1, -1) + 1 + adj_dir(b, row, col, 1, 1) >= _m
    \/ adj_dir(b, row, col, -1, -1) + 1 + adj_dir(b, row, col, 1, 1) >= _m

\* Mutant of _winner_at: the diagonal / check is missing.
_winner_at_no_diag(b, row, col) ==
    \/ \E d \in dirs : adj_dir(b, row, col, d[1], d[2]) = _m - 1
    \/ adj_dir(b, row, col, 0, -1) + 1 + adj_dir(b, row, col, 0, 1) >= _m
    \/ adj_dir(b, row, col, 1, 0) + 1 + adj_dir(b, row, col, -1, 0) >= _m
    \/ adj_dir(b, row, col, 1, -1) + 1 + adj_dir(b, row, col, -1, 1) >= _m

\* _winner_at(row, col) on board b.
_winner_at(b, row, col) ==
    \/ \E d \in dirs : adj_dir(b, row, col, d[1], d[2]) = _m - 1
    \/ adj_dir(b, row, col, 0, -1) + 1 + adj_dir(b, row, col, 0, 1) >= _m
    \/ adj_dir(b, row, col, 1, 0) + 1 + adj_dir(b, row, col, -1, 0) >= _m
    \/ adj_dir(b, row, col, 1, -1) + 1 + adj_dir(b, row, col, -1, 1) >= _m
    \/ adj_dir(b, row, col, -1, -1) + 1 + adj_dir(b, row, col, 1, 1) >= _m

\* Mutant of can_drop: the comparison is <= instead of <.
can_drop_off_by_one(col) ==
    LET i == ListIndex(_ncols, col)
    IN  IF i = -1 THEN "IndexError"
        ELSE BoolRet(_top[i] <= _nrows)

\* Mutant of can_drop: a column outside [0, num_cols) is reported as not
\* droppable instead of being used as a list index.
can_drop_range_checked(col) ==
    IF ~(0 <= col /\ col < _ncols) THEN "False"
    ELSE BoolRet(_top[col] < _nrows)

\* can_drop(col): "True", "False", or "IndexError" when _top[col] is no
\* element of the list.
can_drop(col) ==
    LET i == ListIndex(_ncols, col)
    IN  IF i = -1 THEN "IndexError"
        ELSE BoolRet(_top[i] < _nrows)

\* Mutant of drop_wins: the temporary piece is not removed.
drop_wins_no_undo(col, color) ==
    LET cd == can_drop(col)
    IN  IF cd = "IndexError" THEN [ret |-> "IndexError", board |-> _board]
        ELSE IF cd = "False" THEN [ret |-> "False", board |-> _board]
        ELSE LET row == _top[ListIndex(_ncols, col)]
                 placed == _set(_board, row, col, color)
             IN  IF ~placed.ok
                 THEN [ret |-> "AssertionError", board |-> _board]
                 ELSE [ret |-> BoolRet(_winner_at(placed.board, row, col)),
                       board |-> placed.board]

\* Mutant of drop_wins: no can_drop check before the temporary drop.
drop_wins_unchecked(col, color) ==
    LET i == ListIndex(_ncols, col)
    IN  IF i = -1 THEN [ret |-> "IndexError", board |-> _board]
        ELSE LET row == _top[i]
                 placed == _set(_board, row, col, color)
             IN  IF ~placed.ok
                 THEN [ret |-> "AssertionError", board |-> _board]
                 ELSE [ret |-> BoolRet(_winner_at(placed.board, row, col)),
                       board |-> _set(placed.board, row, col, None).board]

\* Mutant of drop_wins: the temporary piece is not removed (on board b).
drop_wins_on_no_undo(b, col, color) ==
    LET cd == can_drop(col)
    IN  IF cd = "IndexError" THEN [ret |-> "IndexError", board |-> b]
        ELSE IF cd = "False" THEN [ret |-> "False", board |-> b]
        ELSE LET row == _top[ListIndex(_ncols, col)]
                 placed == _set(b, row, col, color)
             IN  IF ~placed.ok
                 THEN [ret |-> "AssertionError", board |-> b]
                 ELSE [ret |-> BoolRet(_winner_at(placed.board, row, col)),
                       board |-> placed.board]

\* drop_wins(col, color) called when self._board is b (the board an earlier
\* call of the same caller left): the value returned or exception raised,
\* and the board the call leaves.
drop_wins_on(b, col, color) ==
    LET cd == can_drop(col)
    IN  IF cd = "IndexError" THEN [ret |-> "IndexError", board |-> b]
        ELSE IF cd = "False" THEN [ret |-> "False", board |-> b]
        ELSE LET row == _top[ListIndex(_ncols, col)]
                 placed == _set(b, row, col, color)
             IN  IF ~placed.ok
                 THEN [ret |-> "AssertionError", board |-> b]
                 ELSE [ret |-> BoolRet(_winner_at(placed.board, row, col)),
                       board |-> _set(placed.board, row, col, None).board]

\* drop_wins(col, color): the value returned or exception raised, and the
\* board the call leaves.
drop_wins(col, color) == drop_wins_on(_board, col, color)

\* Mutant of drop: _top[col] is not incremented.
drop_keeps_top(col, color) ==
    LET cd == can_drop(col)
        same(e) == [ret |-> e, board |-> _board, top |-> _top,
                    winner |-> _winner]
    IN  IF cd = "IndexError" THEN same("IndexError")
        ELSE IF cd = "False" THEN same("ValueError")
        ELSE LET i == ListIndex(_ncols, col)
                 row == _top[i]
                 placed == _set(_board, row, col, color)
             IN  IF ~placed.ok THEN same("AssertionError")
                 ELSE [ret |-> "None",
                       board |-> placed.board,
                       top |-> _top,
                       winner |-> IF _winner_at(placed.board, row, col)
                                  THEN color ELSE _winner]

\* Mutant of drop: no can_drop check before the piece is placed.
drop_unchecked(col, color) ==
    LET i == ListIndex(_ncols, col)
        same(e) == [ret |-> e, board |-> _board, top |-> _top,
                    winner |-> _winner]
    IN  IF i = -1 THEN same("IndexError")
        ELSE LET row == _top[i]
                 placed == _set(_board, row, col, color)
             IN  IF ~placed.ok THEN same("AssertionError")
                 ELSE [ret |-> "None",
                       board |-> placed.board,
                       top |-> [_top EXCEPT ![i] = @ + 1],
                       winner |-> IF _winner_at(placed.board, row, col)
                                  THEN color ELSE _winner]

\* Mutant of drop: the win scan starts at the new top of the column, the
\* cell above the piece just placed.
drop_scans_above(col, color) ==
    LET cd == can_drop(col)
        same(e) == [ret |-> e, board |-> _board, top |-> _top,
                    winner |-> _winner]
    IN  IF cd = "IndexError" THEN same("IndexError")
        ELSE IF cd = "False" THEN same("ValueError")
        ELSE LET i == ListIndex(_ncols, col)
                 row == _top[i]
                 placed == _set(_board, row, col, color)
             IN  IF ~placed.ok THEN same("AssertionError")
                 ELSE [ret |-> "None",
                       board |-> placed.board,
                       top |-> [_top EXCEPT ![i] = @ + 1],
                       winner |-> IF _winner_at(placed.board, row + 1, col)
                                  THEN color ELSE _winner]

\* Mutant of drop: winner is set to the colour dropped whatever the scan says.
drop_always_sets_winner(col, color) ==
    LET cd == can_drop(col)
        same(e) == [ret |-> e, board |-> _board, top |-> _top,
                    winner |-> _winner]
    IN  IF cd = "IndexError" THEN same("IndexError")
        ELSE IF cd = "False" THEN same("ValueError")
        ELSE LET i == ListIndex(_ncols, col)
                 row == _top[i]
                 placed == _set(_board, row, col, color)
             IN  IF ~placed.ok THEN same("AssertionError")
                 ELSE [ret |-> "None",
                       board |-> placed.board,
                       top |-> [_top EXCEPT ![i] = @ + 1],
                       winner |-> color]

\* Mutant of drop: winner is assigned the scan's outcome, None when the
\* drop completes no run.
drop_clears_winner(col, color) ==
    LET cd == can_drop(col)
        same(e) == [ret |-> e, board |-> _board, top |-> _top,
                    winner |-> _winner]
    IN  IF cd = "IndexError" THEN same("IndexError")
        ELSE IF cd = "False" THEN same("ValueError")
        ELSE LET i == ListIndex(_ncols, col)
                 row == _top[i]
                 placed == _set(_board, row, col, color)
             IN  IF ~placed.ok THEN same("AssertionError")
                 ELSE [ret |-> "None",
                       board |-> placed.board,
                       top |-> [_top EXCEPT ![i] = @ + 1],
                       winner |-> IF _winner_at(placed.board, row, col)
                                  THEN color ELSE None]

\* drop(col, color): the exception raised ("None" when it returns), and
\* the board, column tops and winner the call leaves.
drop(col, color) ==
    LET cd == can_drop(col)
        same(e) == [ret |-> e, board |-> _board, top |-> _top,
                    winner |-> _winner]
    IN  IF cd = "IndexError" THEN same("IndexError")
        ELSE IF cd = "False" THEN same("ValueError")
        ELSE LET i == ListIndex(_ncols, col)
                 row == _top[i]
                 placed == _set(_board, row, col, color)
             IN  IF ~placed.ok THEN same("AssertionError")
                 ELSE [ret |-> "None",
                       board |-> placed.board,
                       top |-> [_top EXCEPT ![i] = @ + 1],
                       winner |-> IF _winner_at(placed.board, row, col)
                                  THEN color ELSE _winner]

\* Mutant of reset: the column tops are not zeroed.
reset_top_kept == _top

\* reset(): every cell None, every top 0.
reset_board == [r \in 0 .. _nrows - 1 |-> [c \in 0 .. _ncols - 1 |-> None]]
reset_top == [c \in 0 .. _ncols - 1 |-> 0]

\* Mutant of done: one full column is taken for a full board.
done_any_full ==
    IF winner # None THEN TRUE
    ELSE \E c \in 0 .. _ncols - 1 : ~(_top[c] < _nrows)

\* Mutant of done: only the winner is looked at.
done_only_winner == winner # None

\* done property
done ==
    IF winner # None THEN TRUE
    ELSE \A c \in 0 .. _ncols - 1 : ~(_top[c] < _nrows)

\* grid property: a deep copy of _board (index 0 is the top row).
grid == _board

\* ------------------------------------------------------------------ inputs
\* (nrows, ncols, m) for which the constructor succeeds.
Dims == {d \in (1 .. MaxRows) \X (1 .. MaxCols) \X (1 .. MaxRows) :
            /\ ~(d[1] < d[3])
            /\ ~(d[2] < d[3])
            /\ d[1] * d[2] <= MaxCells}

\* The column arguments a caller passes: in range and up to OutOfRange
\* outside the indices a list of num_cols elements accepts.
ColArgs == (-_ncols - OutOfRange) .. (_ncols - 1 + OutOfRange)

\* No call pending: the caller has taken the last result.
Idle == [op |-> "idle", col |-> 0, color |-> None, ret |-> "None",
         was |-> [winner |-> None, done |-> FALSE]]

\* What the winner and done properties read now, as a call is made.
Before == [winner |-> winner, done |-> done]

\* Mutant of __init__: the board is built with rows and columns exchanged.
Constructed_transposed(nrows, ncols, mm) ==
    /\ _nrows = nrows /\ _ncols = ncols /\ _m = mm
    /\ _board = [r \in 0 .. ncols - 1 |-> [c \in 0 .. nrows - 1 |-> None]]
    /\ _top = [c \in 0 .. ncols - 1 |-> 0]
    /\ _winner = None
    /\ last = [op |-> "__init__", col |-> 0, color |-> None,
               ret |-> "None", was |-> [winner |-> None, done |-> FALSE]]

\* ------------------------------------------------------------------ actions
\* ConnectM.__init__(nrows, ncols, m): the state a constructor call leaves.
Constructed(nrows, ncols, mm) ==
    /\ _nrows = nrows
    /\ _ncols = ncols
    /\ _m = mm
    /\ _board = [r \in 0 .. nrows - 1 |-> [c \in 0 .. ncols - 1 |-> None]]
    /\ _top = [c \in 0 .. ncols - 1 |-> 0]
    /\ _winner = None
    /\ last = [op |-> "__init__", col |-> 0, color |-> None,
               ret |-> "None", was |-> [winner |-> None, done |-> FALSE]]

Init ==
    /\ \E d \in Dims : Constructed(d[1], d[2], d[3])
    /\ pc = 0
    /\ locals = NoLocals

\* The caller takes the result of the call; the next call follows.
Return ==
    /\ last.op # "idle"
    /\ last' = Idle
    /\ UNCHANGED <<_nrows, _ncols, _m, _board, _top, _winner, pc, locals>>

CanDrop ==
    \E col \in ColArgs :
        /\ last.op = "idle"
        /\ last' = [op |-> "can_drop", col |-> col, color |-> None,
                    ret |-> can_drop(col), was |-> Before]
        /\ UNCHANGED <<_nrows, _ncols, _m, _board, _top, _winner, pc, locals>>

DropWins ==
    \E col \in ColArgs, color \in PieceColor :
        LET r == drop_wins(col, color)
        IN  /\ last.op = "idle"
            /\ _board' = r.board
            /\ last' = [op |-> "drop_wins", col |-> col, color |-> color,
                        ret |-> r.ret, was |-> Before]
            /\ UNCHANGED <<_nrows, _ncols, _m, _top, _winner, pc, locals>>

Drop ==
    \E col \in ColArgs, color \in PieceColor :
        LET r == drop(col, color)
        IN  /\ last.op = "idle"
            /\ _board' = r.board
            /\ _top' = r.top
            /\ _winner' = r.winner
            /\ last' = [op |-> "drop", col |-> col, color |-> color,
                        ret |-> r.ret, was |-> Before]
            /\ UNCHANGED <<_nrows, _ncols, _m, pc, locals>>

Reset ==
    /\ last.op = "idle"
    /\ _board' = reset_board
    /\ _top' = reset_top
    /\ _winner' = None
    /\ last' = [op |-> "reset", col |-> 0, color |-> None, ret |-> "None",
                was |-> Before]
    /\ UNCHANGED <<_nrows, _ncols, _m, pc, locals>>

Next == CanDrop \/ DropWins \/ Drop \/ Reset \/ Return

Spec == Init /\ [][Next]_vars

\* ------------------------------------------------------- sample board
\* sample_board() of the tests: the drops made, in order, on ConnectM(5, 5, 4),
\* each <<column, colour>>.
sample_drops ==
    << <<0, "YELLOW">>,
       <<1, "RED">>, <<1, "YELLOW">>,
       <<2, "RED">>, <<2, "RED">>, <<2, "RED">>,
       <<3, "YELLOW">>, <<3, "YELLOW">>, <<3, "YELLOW">>, <<3, "RED">>,
       <<4, "YELLOW">>, <<4, "RED">>, <<4, "RED">>, <<4, "YELLOW">>,
       <<4, "YELLOW">> >>

\* test_win: the drop made on the sample board.
test_win_drop == <<2, "RED">>

\* The statements of test_win, sample_board() inlined.
test_win == sample_drops \o <<test_win_drop>>

\* connectm = ConnectM(5, 5, 4), before the first statement.
InitSample ==
    /\ Constructed(5, 5, 4)
    /\ pc = 0
    /\ locals = NoLocals

\* The next drop statement of test_win; an exception ends the test.
ScriptDrop ==
    /\ last.op = "idle"
    /\ pc \in 0 .. Len(test_win) - 1
    /\ LET col == test_win[pc + 1][1]
           color == test_win[pc + 1][2]
           r == drop(col, color)
       IN  /\ _board' = r.board
           /\ _top' = r.top
           /\ _winner' = r.winner
           /\ last' = [op |-> "drop", col |-> col, color |-> color,
                       ret |-> r.ret, was |-> Before]
           /\ pc' = IF r.ret = "None" THEN pc + 1 ELSE -1
    /\ UNCHANGED <<_nrows, _ncols, _m, locals>>

\* The test's drops, with can_drop and drop_wins queries (test_can_drop_2,
\* test_drop_wins_2) made between them.
NextSample == ScriptDrop \/ CanDrop \/ DropWins \/ Return

SpecSample == InitSample /\ [][NextSample]_vars

\* ------------------------------------------------------------- bots
\* Mutant of RandomBot.suggest_move: every column is a candidate.
RandomBot_suggest_move_any ==
    [exc |-> "None", cols |-> 0 .. num_cols - 1]

\* RandomBot.suggest_move(): the exception raised ("None" when it returns)
\* and the columns random.choice(possible_cols) can return; random.choice
\* of an empty list raises IndexError.
RandomBot_suggest_move ==
    LET possible_cols == {col \in 0 .. num_cols - 1 : can_drop(col) = "True"}
    IN  IF possible_cols = {} THEN [exc |-> "IndexError", cols |-> {}]
        ELSE [exc |-> "None", cols |-> possible_cols]

\* Mutant of the SmartBot loop body: the opponent's win is looked at first.
SmartBot_visit_block_first(b, col, color, opponent_color) ==
    IF can_drop(col) # "True" THEN [kind |-> "continue", board |-> b]
    ELSE LET theirs == drop_wins_on(b, col, opponent_color)
         IN  IF theirs.ret = "True"
             THEN [kind |-> "opponent_win", board |-> theirs.board]
             ELSE LET own == drop_wins_on(theirs.board, col, color)
                  IN  IF own.ret = "True"
                      THEN [kind |-> "return", board |-> own.board]
                      ELSE [kind |-> "nonwinning", board |-> own.board]

\* Mutant of the SmartBot loop body: no can_drop check.
SmartBot_visit_unchecked(b, col, color, opponent_color) ==
    LET own == drop_wins_on(b, col, color)
    IN  IF own.ret = "True" THEN [kind |-> "return", board |-> own.board]
        ELSE LET theirs == drop_wins_on(own.board, col, opponent_color)
             IN  IF theirs.ret = "True"
                 THEN [kind |-> "opponent_win", board |-> theirs.board]
                 ELSE [kind |-> "nonwinning", board |-> theirs.board]

\* The body of the loop of SmartBot.suggest_move for one col, on board b:
\* which branch is taken, and the board the drop_wins calls leave.
SmartBot_visit(b, col, color, opponent_color) ==
    IF can_drop(col) # "True" THEN [kind |-> "continue", board |-> b]
    ELSE LET own == drop_wins_on(b, col, color)
         IN  IF own.ret = "True" THEN [kind |-> "return", board |-> own.board]
             ELSE LET theirs == drop_wins_on(own.board, col, opponent_color)
                  IN  IF theirs.ret = "True"
                      THEN [kind |-> "opponent_win", board |-> theirs.board]
                      ELSE [kind |-> "nonwinning", board |-> theirs.board]

\* Mutant of the end of SmartBot.suggest_move: the last blocking column is
\* returned.
SmartBot_choose_last(opponent_win_moves, nonwinning_moves) ==
    IF Len(opponent_win_moves) > 0
    THEN [exc |-> "None",
          cols |-> {opponent_win_moves[Len(opponent_win_moves)]}]
    ELSE IF Len(nonwinning_moves) = 0 THEN [exc |-> "IndexError", cols |-> {}]
    ELSE [exc |-> "None",
          cols |-> {nonwinning_moves[i] : i \in 1 .. Len(nonwinning_moves)}]

\* The end of SmartBot.suggest_move, after the loop: the first blocking
\* column, else random.choice(nonwinning_moves).
SmartBot_choose(opponent_win_moves, nonwinning_moves) ==
    IF Len(opponent_win_moves) > 0
    THEN [exc |-> "None", cols |-> {opponent_win_moves[1]}]
    ELSE IF Len(nonwinning_moves) = 0 THEN [exc |-> "IndexError", cols |-> {}]
    ELSE [exc |-> "None",
          cols |-> {nonwinning_moves[i] : i \in 1 .. Len(nonwinning_moves)}]

\* The loop of SmartBot.suggest_move from column col on, on board b, with
\* the two lists built so far.
RECURSIVE SmartBot_loop(_, _, _, _, _, _)
SmartBot_loop(b, col, color, opponent_color, opponent_win_moves, nonwinning_moves) ==
    IF col >= num_cols
    THEN [board |-> b] @@ SmartBot_choose(opponent_win_moves, nonwinning_moves)
    ELSE LET v == SmartBot_visit(b, col, color, opponent_color)
         IN  IF v.kind = "return"
             THEN [board |-> v.board, exc |-> "None", cols |-> {col}]
             ELSE SmartBot_loop(v.board, col + 1, color, opponent_color,
                    IF v.kind = "opponent_win"
                    THEN Append(opponent_win_moves, col)
                    ELSE opponent_win_moves,
                    IF v.kind = "nonwinning"
                    THEN Append(nonwinning_moves, col)
                    ELSE nonwinning_moves)

\* Mutant of SmartBot.suggest_move: the bot picks a droppable column at
\* random.
SmartBot_suggest_move_random(color, opponent_color) ==
    [board |-> _board] @@ RandomBot_suggest_move

\* SmartBot.suggest_move() of a bot constructed with (color,
\* opponent_color): the exception raised ("None" when it returns), the
\* columns it can return, and the board its calls leave.
SmartBot_suggest_move(color, opponent_color) ==
    SmartBot_loop(_board, 0, color, opponent_color, <<>>, <<>>)

\* The (color, opponent_color) pairs bots are constructed with.
BotColors == {<<"YELLOW", "RED">>, <<"RED", "YELLOW">>}

\* column = bot.suggest_move() for a RandomBot: last.col is the column
\* returned, last.ret is "int" or the exception raised.
RandomSuggest ==
    \E cc \in BotColors :
        LET r == RandomBot_suggest_move
        IN  /\ last.op = "idle"
            /\ \/ /\ r.exc # "None"
                  /\ last' = [op |-> "RandomBot.suggest_move", col |-> 0,
                              color |-> cc[1], ret |-> r.exc, was |-> Before]
               \/ \E column \in r.cols :
                    last' = [op |-> "RandomBot.suggest_move", col |-> column,
                             color |-> cc[1], ret |-> "int", was |-> Before]
            /\ UNCHANGED <<_nrows, _ncols, _m, _board, _top, _winner, pc, locals>>

\* column = bot.suggest_move() for a SmartBot.
SmartSuggest ==
    \E cc \in BotColors :
        LET r == SmartBot_suggest_move(cc[1], cc[2])
        IN  /\ last.op = "idle"
            /\ _board' = r.board
            /\ \/ /\ r.exc # "None"
                  /\ last' = [op |-> "SmartBot.suggest_move", col |-> 0,
                              color |-> cc[1], ret |-> r.exc, was |-> Before]
               \/ \E column \in r.cols :
                    last' = [op |-> "SmartBot.suggest_move", col |-> column,
                             color |-> cc[1], ret |-> "int", was |-> Before]
            /\ UNCHANGED <<_nrows, _ncols, _m, _top, _winner, pc, locals>>

\* The board's callers, bots among them.
NextBot == RandomSuggest \/ SmartSuggest \/ Next

SpecBot == Init /\ [][NextBot]_vars

\* ------------------------------------------------------- grid snapshots
\* Largest board area on which a caller's writes to a returned grid are
\* explored.
MaxGridCells == 4

\* Mutant of the grid property: the board's own list is returned
\* (return self._board).
grid_alias == [shared |-> TRUE, cells |-> _board]

\* The list object the grid property returns: copy.deepcopy gives new row
\* lists in a new outer list, so no list of the result is a list of the
\* board (shared is FALSE); its cells are those of _board.
grid_object == [shared |-> FALSE, cells |-> _board]

\* A caller that has not read grid yet.
NoGrid == [grid |-> [shared |-> FALSE, cells |-> <<>>]]

\* board = ConnectM(nrows, ncols, m) on a small board.
InitGrid ==
    /\ \E d \in Dims : d[1] * d[2] <= MaxGridCells
                        /\ Constructed(d[1], d[2], d[3])
    /\ pc = 0
    /\ locals = NoGrid

\* g = board.grid
GetGrid ==
    /\ last.op = "idle"
    /\ locals' = [grid |-> grid_object]
    /\ last' = [op |-> "grid", col |-> 0, color |-> None, ret |-> "None",
                was |-> Before]
    /\ UNCHANGED <<_nrows, _ncols, _m, _board, _top, _winner, pc>>

\* g[r][c] = v by the caller, on the list it got from grid: a write to a
\* list reaches the board when the list is one of the board's own.
SetItem ==
    /\ last.op = "idle"
    /\ locals.grid.cells # <<>>
    /\ \E r \in 0 .. _nrows - 1, c \in 0 .. _ncols - 1,
          v \in PieceColor \cup {None} :
        /\ locals' = [grid |-> [locals.grid EXCEPT !.cells[r][c] = v]]
        /\ _board' = IF locals.grid.shared
                     THEN [_board EXCEPT ![r][c] = v]
                     ELSE _board
        /\ last' = [op |-> "setitem", col |-> c, color |-> v, ret |-> "None",
                    was |-> Before]
    /\ UNCHANGED <<_nrows, _ncols, _m, _top, _winner, pc>>

NextGrid ==
    GetGrid \/ SetItem \/ CanDrop \/ DropWins \/ Drop \/ Reset \/ Return

SpecGrid == InitGrid /\ [][NextGrid]_vars

\* ------------------------------------------------------- construction
\* Mutant of ConnectMBase.__init__: only the number of rows is checked.
ConnectMBase_init_rows_only(nrows, ncols, mm) ==
    IF nrows < mm THEN "ValueError"
    ELSE "None"

\* ConnectMBase.__init__(nrows, ncols, m): the exception raised, "None" when
\* it returns.
ConnectMBase_init(nrows, ncols, mm) ==
    IF nrows < mm THEN "ValueError"
    ELSE IF ncols < mm THEN "ValueError"
    ELSE "None"

\* The positive arguments a constructor call is given, m up to beyond both
\* dimensions.
CtorArgs == {d \in (1 .. MaxRows) \X (1 .. MaxCols) \X (1 .. MaxRows + MaxCols) :
                d[1] * d[2] <= MaxCells}

\* Before board = ConnectM(nrows, ncols, m): the arguments are chosen, there
\* is no object yet.
InitNew ==
    /\ \E d \in CtorArgs : locals = [nrows |-> d[1], ncols |-> d[2], m |-> d[3]]
    /\ pc = 0
    /\ _nrows = 0 /\ _ncols = 0 /\ _m = 0
    /\ _board = <<>>
    /\ _top = <<>>
    /\ _winner = None
    /\ last = [op |-> "start", col |-> 0, color |-> None, ret |-> "None",
               was |-> [winner |-> None, done |-> FALSE]]

\* board = ConnectM(nrows, ncols, m): ConnectM.__init__ first calls
\* ConnectMBase.__init__; its exception ends the caller and leaves no object.
New ==
    /\ pc = 0
    /\ IF ConnectMBase_init(locals.nrows, locals.ncols, locals.m) = "None"
       THEN /\ _nrows' = locals.nrows
            /\ _ncols' = locals.ncols
            /\ _m' = locals.m
            /\ _board' = [r \in 0 .. locals.nrows - 1 |->
                            [c \in 0 .. locals.ncols - 1 |-> None]]
            /\ _top' = [c \in 0 .. locals.ncols - 1 |-> 0]
            /\ _winner' = None
            /\ last' = [op |-> "__init__", col |-> 0, color |-> None,
                        ret |-> "None",
                        was |-> [winner |-> None, done |-> FALSE]]
            /\ pc' = 1
       ELSE /\ last' = [op |-> "__init__", col |-> 0, color |-> None,
                        ret |-> "ValueError",
                        was |-> [winner |-> None, done |-> FALSE]]
            /\ pc' = -1
            /\ UNCHANGED <<_nrows, _ncols, _m, _board, _top, _winner>>
    /\ UNCHANGED locals

\* The caller takes the result of a call on the object the constructor
\* returned; a caller the constructor's exception ended takes none.
ReturnNew ==
    /\ pc = 1
    /\ Return

\* The constructor call, then any calls on the object it returned.
NextNew == New \/ CanDrop \/ DropWins \/ Drop \/ Reset \/ ReturnNew

SpecNew == InitNew /\ [][NextNew]_vars

\* ------------------------------------------------- concurrent readers
\* drop_wins up to and including the temporary drop: ret is "running" when
\* the piece has been written and the call goes on, else the call has
\* returned (False) or raised.
drop_wins_begin(col, color) ==
    LET cd == can_drop(col)
    IN  IF cd = "IndexError" THEN [ret |-> "IndexError", board |-> _board]
        ELSE IF cd = "False" THEN [ret |-> "False", board |-> _board]
        ELSE LET row == _top[ListIndex(_ncols, col)]
                 placed == _set(_board, row, col, color)
             IN  IF ~placed.ok
                 THEN [ret |-> "AssertionError", board |-> _board]
                 ELSE [ret |-> "running", board |-> placed.board]

\* The rest of drop_wins, with the temporary piece on the board: the scan,
\* the undo and the value returned.
drop_wins_end(col, color) ==
    LET row == _top[col]
    IN  [ret |-> BoolRet(_winner_at(_board, row, col)),
         board |-> _set(_board, row, col, None).board]

\* The thread that owns the board calls drop_wins(col, color) and runs it up
\* to the temporary drop.
DropWinsBegin ==
    \E col \in ColArgs, color \in PieceColor :
        LET r == drop_wins_begin(col, color)
        IN  /\ last.op = "idle"
            /\ _board' = r.board
            /\ last' = [op |-> "drop_wins", col |-> col, color |-> color,
                        ret |-> r.ret, was |-> Before]
            /\ UNCHANGED <<_nrows, _ncols, _m, _top, _winner, pc, locals>>

\* The call runs to its return.
DropWinsEnd ==
    /\ last.op = "drop_wins" /\ last.ret = "running"
    /\ LET r == drop_wins_end(last.col, last.color)
       IN  /\ _board' = r.board
           /\ last' = [last EXCEPT !.ret = r.ret]
    /\ UNCHANGED <<_nrows, _ncols, _m, _top, _winner, pc, locals>>

\* A second thread reads board.grid: drop_wins takes no lock, so the read
\* can run at any point of the owner's call.
ThreadGetGrid ==
    /\ locals' = [grid |-> grid_object]
    /\ UNCHANGED <<_nrows, _ncols, _m, _board, _top, _winner, last, pc>>

\* The owner takes the result of a call that has returned or raised.
ReturnFromCall ==
    /\ last.ret # "running"
    /\ Return

\* The owner's calls, one after the other, and the reading thread.
NextReaders ==
    DropWinsBegin \/ DropWinsEnd \/ Drop \/ ReturnFromCall \/ ThreadGetGrid

SpecReaders == InitGrid /\ [][NextReaders]_vars

\* ------------------------------------------------------------ simulate
\* Largest number of games simulate is asked to play.
MaxGames == 2

\* Mutant of OtherColor: the player is not changed.
OtherColor_same(color) == color

\* The colour of the other player.
OtherColor(color) == IF color = "YELLOW" THEN "RED" ELSE "YELLOW"

\* Mutant of Bot_suggest_move: the bot suggests any column of the board.
Bot_suggest_move_any(name, color) ==
    [board |-> _board, exc |-> "None", cols |-> 0 .. num_cols - 1]

\* current.bot.suggest_move() for the bot of the given name playing color.
Bot_suggest_move(name, color) ==
    IF name = "random"
    THEN [board |-> _board] @@ RandomBot_suggest_move
    ELSE SmartBot_suggest_move(color, OtherColor(color))

\* simulate(connectm, n, bots) is called on a new board: locals are its
\* arguments n and bots (the bot names by colour), the wins tallies, its
\* position at, the number of games played, current's colour, column, and
\* the number of drop calls made in the current game.
InitSim ==
    /\ \E d \in Dims : Constructed(d[1], d[2], d[3])
    /\ pc = 0
    /\ \E n \in 0 .. MaxGames, yellow \in {"random", "smart"},
          red \in {"random", "smart"} :
        locals = [n |-> n,
                  bots |-> [c \in PieceColor |->
                                IF c = "YELLOW" THEN yellow ELSE red],
                  wins |-> [c \in PieceColor |-> 0],
                  at |-> "for", game |-> 0, current |-> "YELLOW",
                  column |-> 0, drops |-> 0]

\* for _ in range(n): connectm.reset(); current = bots[YELLOW]
SimFor ==
    /\ locals.at = "for"
    /\ IF locals.game < locals.n
       THEN /\ _board' = reset_board
            /\ _top' = reset_top
            /\ _winner' = None
            /\ last' = [op |-> "reset", col |-> 0, color |-> None,
                        ret |-> "None", was |-> Before]
            /\ locals' = [locals EXCEPT !.at = "while", !.current = "YELLOW",
                                        !.drops = 0]
       ELSE /\ locals' = [locals EXCEPT !.at = "returned"]
            /\ UNCHANGED <<_board, _top, _winner, last>>
    /\ UNCHANGED <<_nrows, _ncols, _m, pc>>

\* while not connectm.done: column = current.bot.suggest_move()
SimSuggest ==
    /\ locals.at = "while"
    /\ ~done
    /\ LET r == Bot_suggest_move(locals.bots[locals.current], locals.current)
       IN  /\ _board' = r.board
           /\ \/ /\ r.exc # "None"
                 /\ last' = [op |-> "suggest_move", col |-> 0,
                             color |-> locals.current, ret |-> r.exc,
                             was |-> Before]
                 /\ locals' = [locals EXCEPT !.at = "raised"]
              \/ \E column \in r.cols :
                    /\ last' = [op |-> "suggest_move", col |-> column,
                                color |-> locals.current, ret |-> "int",
                                was |-> Before]
                    /\ locals' = [locals EXCEPT !.at = "drop",
                                                !.column = column]
    /\ UNCHANGED <<_nrows, _ncols, _m, _top, _winner, pc>>

\* connectm.drop(column, current.color), then the other player is current.
SimDrop ==
    /\ locals.at = "drop"
    /\ LET r == drop(locals.column, locals.current)
       IN  /\ _board' = r.board
           /\ _top' = r.top
           /\ _winner' = r.winner
           /\ last' = [op |-> "drop", col |-> locals.column,
                       color |-> locals.current, ret |-> r.ret,
                       was |-> Before]
           /\ locals' = [locals EXCEPT
                    !.at = IF r.ret = "None" THEN "while" ELSE "raised",
                    !.current = IF r.ret = "None" THEN OtherColor(@) ELSE @,
                    !.drops = @ + 1]
    /\ UNCHANGED <<_nrows, _ncols, _m, pc>>

\* The while loop ends: winner = connectm.winner; the winner's tally.
SimTally ==
    /\ locals.at = "while"
    /\ done
    /\ locals' = [locals EXCEPT
            !.wins = IF winner # None THEN [@ EXCEPT ![winner] = @ + 1] ELSE @,
            !.game = @ + 1,
            !.at = "for"]
    /\ UNCHANGED <<_nrows, _ncols, _m, _board, _top, _winner, last, pc>>

NextSim == SimFor \/ SimSuggest \/ SimDrop \/ SimTally

SpecSim == InitSim /\ [][NextSim]_vars

\* ------------------------------------------------------- typed input
\* A text the user types is a sequence of characters, each a string of one
\* character; "superscript2" stands for the character U+00B2, which
\* str.isnumeric accepts and int rejects.
MaxInputLen == 2

DecimalChars == {"0", "1", "2", "3", "4"}
Chars == DecimalChars \cup {"a", "superscript2"}

\* The texts typed at a prompt.
Inputs == UNION {[1 .. n -> Chars] : n \in 0 .. MaxInputLen}

\* The value of a decimal digit.
DigitValue(ch) ==
    CASE ch = "0" -> 0 [] ch = "1" -> 1 [] ch = "2" -> 2 [] ch = "3" -> 3
      [] ch = "4" -> 4 [] ch = "5" -> 5 [] ch = "6" -> 6 [] ch = "7" -> 7
      [] ch = "8" -> 8 [] ch = "9" -> 9

\* v.isnumeric(): at least one character and all characters numeric.
str_isnumeric(v) ==
    /\ Len(v) > 0
    /\ \A i \in 1 .. Len(v) : v[i] \in DecimalChars \cup {"superscript2"}

\* The number a text of decimal digits denotes.
RECURSIVE DecimalValue(_)
DecimalValue(v) ==
    IF Len(v) = 0 THEN 0
    ELSE 10 * DecimalValue(SubSeq(v, 1, Len(v) - 1)) + DigitValue(v[Len(v)])

\* int(v): the integer, or the exception ValueError for a text that is
\* empty or holds a character that is no decimal digit.
str_int(v) ==
    IF Len(v) > 0 /\ \A i \in 1 .. Len(v) : v[i] \in DecimalChars
    THEN [exc |-> "None", value |-> DecimalValue(v)]
    ELSE [exc |-> "ValueError", value |-> 0]

\* v in s for two texts: v occurs in s as a run of consecutive characters
\* (the empty text occurs in every text).
str_in(v, s) ==
    \E k \in 0 .. Len(s) - Len(v) :
        \A i \in 1 .. Len(v) : s[k + i] = v[i]

\* ------------------------------------------------------------- tui.py
\* The --player1 / --player2 choices.
PlayerTypes == {"human", "random-bot", "smart-bot"}

\* TUIPlayer.__init__: the bot of a player of the given type, None for a
\* human.
TUIPlayer_init(player_type) ==
    CASE player_type = "random-bot" -> "random"
      [] player_type = "smart-bot" -> "smart"
      [] OTHER -> None

\* TUIPlayer.get_move of a human, one pass of its while True loop on the
\* typed text v: the column is returned, the user is asked again, or the
\* exception of can_drop leaves the method.
TUIPlayer_get_move(v) ==
    IF ~str_isnumeric(v) THEN [kind |-> "prompt", col |-> 0]
    ELSE IF str_int(v).exc = "ValueError" THEN [kind |-> "prompt", col |-> 0]
    ELSE LET col == str_int(v).value - 1
         IN  IF ~(col < num_cols) THEN [kind |-> "prompt", col |-> 0]
             ELSE IF can_drop(col) = "IndexError"
                  THEN [kind |-> "IndexError", col |-> 0]
             ELSE IF can_drop(col) = "True"
                  THEN [kind |-> "return", col |-> col]
             ELSE [kind |-> "prompt", col |-> 0]

\* cmd builds a new board and the two players; play_connect_4 starts with
\* current = players[YELLOW]. locals: the player types by colour, the
\* position at, current's colour and column.
InitTui ==
    /\ \E d \in Dims : Constructed(d[1], d[2], d[3])
    /\ pc = 0
    /\ \E player1 \in PlayerTypes, player2 \in PlayerTypes :
        locals = [players |-> [c \in PieceColor |->
                                IF c = "YELLOW" THEN player1 ELSE player2],
                  at |-> "tui.while", current |-> "YELLOW", column |-> 0]

\* while not connectm.done: the loop goes on to get_move or is left.
TuiWhile ==
    /\ locals.at = "tui.while"
    /\ locals' = [locals EXCEPT
                    !.at = IF done THEN "tui.returned" ELSE "tui.get_move"]
    /\ UNCHANGED <<_nrows, _ncols, _m, _board, _top, _winner, last, pc>>

\* column = current.get_move() for a bot.
TuiGetMoveBot ==
    /\ locals.at = "tui.get_move"
    /\ TUIPlayer_init(locals.players[locals.current]) # None
    /\ LET r == Bot_suggest_move(
                    TUIPlayer_init(locals.players[locals.current]),
                    locals.current)
       IN  /\ _board' = r.board
           /\ \/ /\ r.exc # "None"
                 /\ last' = [op |-> "get_move", col |-> 0,
                             color |-> locals.current, ret |-> r.exc,
                             was |-> Before]
                 /\ locals' = [locals EXCEPT !.at = "tui.raised"]
              \/ \E column \in r.cols :
                    /\ last' = [op |-> "get_move", col |-> column,
                                color |-> locals.current, ret |-> "int",
                                was |-> Before]
                    /\ locals' = [locals EXCEPT !.at = "tui.drop",
                                                !.column = column]
    /\ UNCHANGED <<_nrows, _ncols, _m, _top, _winner, pc>>

\* column = current.get_move() for a human: one typed text; a text that is
\* not accepted leaves the player at the prompt.
TuiGetMoveHuman ==
    /\ locals.at = "tui.get_move"
    /\ TUIPlayer_init(locals.players[locals.current]) = None
    /\ \E v \in Inputs :
        LET r == TUIPlayer_get_move(v)
        IN  /\ r.kind # "prompt"
            /\ last' = [op |-> "get_move", col |-> r.col,
                        color |-> locals.current,
                        ret |-> IF r.kind = "return" THEN "int" ELSE r.kind,
                        was |-> Before]
            /\ locals' = [locals EXCEPT
                    !.at = IF r.kind = "return" THEN "tui.drop"
                           ELSE "tui.raised",
                    !.column = r.col]
    /\ UNCHANGED <<_nrows, _ncols, _m, _board, _top, _winner, pc>>

\* connectm.drop(column, current.color), then the other player is current.
TuiDrop ==
    /\ locals.at = "tui.drop"
    /\ LET r == drop(locals.column, locals.current)
       IN  /\ _board' = r.board
           /\ _top' = r.top
           /\ _winner' = r.winner
           /\ last' = [op |-> "drop", col |-> locals.column,
                       color |-> locals.current, ret |-> r.ret,
                       was |-> Before]
           /\ locals' = [locals EXCEPT
                    !.at = IF r.ret = "None" THEN "tui.while"
                           ELSE "tui.raised",
                    !.current = IF r.ret = "None" THEN OtherColor(@) ELSE @]
    /\ UNCHANGED <<_nrows, _ncols, _m, pc>>

NextTui == TuiWhile \/ TuiGetMoveBot \/ TuiGetMoveHuman \/ TuiDrop

SpecTui == InitTui /\ [][NextTui]_vars

\* ------------------------------------------------ the two game loops
\* A game is run either by simulate or by the TUI's play_connect_4.
InitGameLoops == InitSim \/ InitTui

NextGameLoops ==
    \/ SimFor
    \/ SimSuggest
    \/ SimDrop
    \/ SimTally
    \/ TuiWhile
    \/ TuiGetMoveBot
    \/ TuiGetMoveHuman
    \/ TuiDrop

SpecGameLoops == InitGameLoops /\ [][NextGameLoops]_vars

\* -------------------------------------------------------- mini-tui.py
\* The text "1234567" of the column test.
ColumnKeys == <<"1", "2", "3", "4", "5", "6", "7">>

\* One pass of the loop `while column is None` on the typed text
\* user_input: the column is set, the user is asked again, or the
\* exception of int or can_drop leaves play_connect_4.
mini_tui_ask(user_input) ==
    IF ~str_in(user_input, ColumnKeys) THEN [kind |-> "prompt", col |-> 0]
    ELSE IF str_int(user_input).exc # "None"
         THEN [kind |-> str_int(user_input).exc, col |-> 0]
    ELSE LET v == str_int(user_input).value - 1
         IN  IF can_drop(v) = "IndexError"
             THEN [kind |-> "IndexError", col |-> 0]
             ELSE IF can_drop(v) = "True" THEN [kind |-> "return", col |-> v]
             ELSE [kind |-> "prompt", col |-> 0]

\* play_connect_4(connectm) is called on a new board; current = YELLOW.
InitMini ==
    /\ \E d \in Dims : Constructed(d[1], d[2], d[3])
    /\ pc = 0
    /\ locals = [at |-> "mini.input", current |-> "YELLOW", column |-> 0]

\* user_input = input("> "): one typed text; a text that is not accepted
\* leaves the user at the prompt.
MiniInput ==
    /\ locals.at = "mini.input"
    /\ \E user_input \in Inputs :
        LET r == mini_tui_ask(user_input)
        IN  /\ r.kind # "prompt"
            /\ last' = [op |-> "input", col |-> r.col,
                        color |-> locals.current,
                        ret |-> IF r.kind = "return" THEN "int" ELSE r.kind,
                        was |-> Before]
            /\ locals' = [locals EXCEPT
                    !.at = IF r.kind = "return" THEN "mini.drop"
                           ELSE "mini.raised",
                    !.column = r.col]
    /\ UNCHANGED <<_nrows, _ncols, _m, _board, _top, _winner, pc>>

\* connectm.drop(column, current); the loop is left if there is a winner,
\* else the other player is current and the board is printed again.
MiniDrop ==
    /\ locals.at = "mini.drop"
    /\ LET r == drop(locals.column, locals.current)
       IN  /\ _board' = r.board
           /\ _top' = r.top
           /\ _winner' = r.winner
           /\ last' = [op |-> "drop", col |-> locals.column,
                       color |-> locals.current, ret |-> r.ret,
                       was |-> Before]
           /\ locals' = [locals EXCEPT
                    !.at = IF r.ret # "None" THEN "mini.raised"
                           ELSE IF r.winner # None THEN "mini.returned"
                           ELSE "mini.input",
                    !.current = IF r.ret = "None" /\ r.winner = None
                                THEN OtherColor(@) ELSE @]
    /\ UNCHANGED <<_nrows, _ncols, _m, pc>>

NextMini == MiniInput \/ MiniDrop

SpecMini == InitMini /\ [][NextMini]_vars

\* ------------------------------------------------------------- gui.py
\* Largest number of events pygame.event.get() returns in one frame.
MaxEvents == 2

\* The side of a cell in pixels.
DEFAULT_SIDE == 75
SMALL_SIDE == 40

\* side, as play_connect_4 chooses it.
side == IF num_rows * num_cols <= 42 THEN DEFAULT_SIDE ELSE SMALL_SIDE

\* The text "123456789" of the key test.
DigitKeys == <<"1", "2", "3", "4", "5", "6", "7", "8", "9">>

\* The events of a frame: the window is closed, a key is released (unicode
\* is the text of the key, empty for a key that types nothing), a mouse
\* button is released at x (the first and last pixel of each column), or
\* an event the loop does not look at.
GuiEvents ==
    {[type |-> "QUIT", unicode |-> <<>>, x |-> 0],
     [type |-> "OTHER", unicode |-> <<>>, x |-> 0]}
    \cup {[type |-> "KEYUP", unicode |-> key, x |-> 0] :
            key \in {<<>>} \cup {<<ch>> : ch \in Chars}}
    \cup {[type |-> "MOUSEBUTTONUP", unicode |-> <<>>, x |-> c * side + o] :
            c \in 0 .. num_cols - 1, o \in {0, side - 1}}

\* One KEYUP event of a human's turn: column after the event (<<>> is
\* None, <<v>> the column v) and the exception raised, "None" if none.
gui_keyup(key, column) ==
    LET digit == str_in(key, DigitKeys)
        zero == key = <<"0">>
    IN  IF digit /\ str_int(key).exc # "None"
        THEN [exc |-> str_int(key).exc, column |-> column]
        ELSE IF ~digit /\ ~zero THEN [exc |-> "None", column |-> column]
        ELSE LET v == IF digit THEN str_int(key).value - 1 ELSE 9
             IN  IF can_drop(v) = "IndexError"
                 THEN [exc |-> "IndexError", column |-> column]
                 ELSE IF can_drop(v) = "True"
                      THEN [exc |-> "None", column |-> <<v>>]
                      ELSE [exc |-> "None", column |-> column]

\* One pass of `for event in events` in the turn of a human or of a bot:
\* the exception that leaves the loop (SystemExit from sys.exit()) or
\* "None", and column after the event.
gui_event(event, human, column) ==
    IF event.type = "QUIT" THEN [exc |-> "SystemExit", column |-> column]
    ELSE IF ~human THEN [exc |-> "None", column |-> column]
    ELSE IF event.type = "KEYUP" /\ num_cols <= 10
         THEN gui_keyup(event.unicode, column)
    ELSE IF event.type = "MOUSEBUTTONUP"
         THEN [exc |-> "None", column |-> <<event.x \div side>>]
    ELSE [exc |-> "None", column |-> column]

\* cmd builds a new board and the two players; play_connect_4 starts with
\* current = players[YELLOW]. locals: the player types by colour, the
\* position at, current's colour, column (<<>> for None) and the number of
\* events of the frame the for loop has processed.
InitGui ==
    /\ \E d \in Dims : Constructed(d[1], d[2], d[3])
    /\ pc = 0
    /\ \E player1 \in PlayerTypes, player2 \in PlayerTypes :
        locals = [players |-> [c \in PieceColor |->
                                IF c = "YELLOW" THEN player1 ELSE player2],
                  at |-> "gui.while", current |-> "YELLOW", column |-> <<>>,
                  seen |-> 0]

\* while not connectm.done: the loop is left and the winner printed, or a
\* frame begins: events = pygame.event.get(); column = None.
GuiWhile ==
    /\ locals.at = "gui.while"
    /\ locals' = [locals EXCEPT
                    !.at = IF done THEN "gui.returned" ELSE "gui.events",
                    !.column = <<>>,
                    !.seen = 0]
    /\ UNCHANGED <<_nrows, _ncols, _m, _board, _top, _winner, last, pc>>

\* The for loop processes the next event of the frame.
GuiEvent ==
    /\ locals.at = "gui.events"
    /\ locals.seen < MaxEvents
    /\ \E event \in GuiEvents :
        LET r == gui_event(event,
                           TUIPlayer_init(locals.players[locals.current]) = None,
                           locals.column)
        IN  /\ locals' = [locals EXCEPT
                    !.at = IF r.exc = "None" THEN "gui.events"
                           ELSE IF r.exc = "SystemExit" THEN "gui.exited"
                           ELSE "gui.raised",
                    !.column = r.column,
                    !.seen = @ + 1]
            /\ last' = [op |-> "event",
                        col |-> IF r.column = <<>> THEN 0 ELSE r.column[1],
                        color |-> locals.current, ret |-> r.exc,
                        was |-> Before]
    /\ UNCHANGED <<_nrows, _ncols, _m, _board, _top, _winner, pc>>

\* The for loop has ended in a human's turn: a frame with a column goes on
\* to the drop, a frame without one ends.
GuiEndHuman ==
    /\ locals.at = "gui.events"
    /\ TUIPlayer_init(locals.players[locals.current]) = None
    /\ locals' = [locals EXCEPT
                    !.at = IF locals.column = <<>> THEN "gui.while"
                           ELSE "gui.drop"]
    /\ UNCHANGED <<_nrows, _ncols, _m, _board, _top, _winner, last, pc>>

\* The for loop has ended in a bot's turn:
\* column = current.bot.suggest_move().
GuiEndBot ==
    /\ locals.at = "gui.events"
    /\ TUIPlayer_init(locals.players[locals.current]) # None
    /\ LET r == Bot_suggest_move(
                    TUIPlayer_init(locals.players[locals.current]),
                    locals.current)
       IN  /\ _board' = r.board
           /\ \/ /\ r.exc # "None"
                 /\ last' = [op |-> "suggest_move", col |-> 0,
                             color |-> locals.current, ret |-> r.exc,
                             was |-> Before]
                 /\ locals' = [locals EXCEPT !.at = "gui.raised"]
              \/ \E column \in r.cols :
                    /\ last' = [op |-> "suggest_move", col |-> column,
                                color |-> locals.current, ret |-> "int",
                                was |-> Before]
                    /\ locals' = [locals EXCEPT !.at = "gui.drop",
                                                !.column = <<column>>]
    /\ UNCHANGED <<_nrows, _ncols, _m, _top, _winner, pc>>

\* connectm.drop(column, current.color), then the other player is current
\* and the frame ends.
GuiDrop ==
    /\ locals.at = "gui.drop"
    /\ LET r == drop(locals.column[1], locals.current)
       IN  /\ _board' = r.board
           /\ _top' = r.top
           /\ _winner' = r.winner
           /\ last' = [op |-> "drop", col |-> locals.column[1],
                       color |-> locals.current, ret |-> r.ret,
                       was |-> Before]
           /\ locals' = [locals EXCEPT
                    !.at = IF r.ret = "None" THEN "gui.while"
                           ELSE "gui.raised",
                    !.current = IF r.ret = "None" THEN OtherColor(@) ELSE @]
    /\ UNCHANGED <<_nrows, _ncols, _m, pc>>

NextGui == GuiWhile \/ GuiEvent \/ GuiEndHuman \/ GuiEndBot \/ GuiDrop

SpecGui == InitGui /\ [][NextGui]_vars

\* ------------------------------------------------ ConnectMBoardMock
\* Largest m a mock is constructed with, and the number of drop calls made
\* on one mock.
MaxMockM == 3
MaxMockMoves == 5

\* ConnectMBoardMock.__init__(nrows, ncols, m): the fields of the new mock.
ConnectMBoardMock_init(nrows, ncols, mm) ==
    [_board |-> [r \in 0 .. nrows - 1 |-> [c \in 0 .. ncols - 1 |-> None]],
     _ncols |-> ncols,
     _nrows |-> nrows,
     _m |-> mm,
     _nummoves |-> 0]

\* can_drop(col): self._board[-1][col] is None; "IndexError" when col is no
\* index of the row.
ConnectMBoardMock_can_drop(self, col) ==
    LET i == ListIndex(self._ncols, col)
    IN  IF i = -1 THEN "IndexError"
        ELSE BoolRet(self._board[self._nrows - 1][i] = None)

\* drop_wins(col, color): whether the next move ends the game in favour of
\* color.
ConnectMBoardMock_drop_wins(self, col, color) ==
    IF self._nummoves = self._m - 1
    THEN IF self._m % 2 = 0 THEN BoolRet(color = "RED")
         ELSE BoolRet(color = "YELLOW")
    ELSE "False"

\* drop(col, color): the value returned or exception raised, and the mock
\* after the call.
ConnectMBoardMock_drop(self, col, color) ==
    LET i == ListIndex(self._ncols, col)
    IN  IF i = -1 THEN [ret |-> "IndexError", self |-> self]
        ELSE [ret |-> "None",
              self |-> [self EXCEPT !._board[self._nrows - 1][i] = color,
                                    !._nummoves = @ + 1]]

\* reset(): the mock after the call.
ConnectMBoardMock_reset(self) ==
    [self EXCEPT !._board = [r \in 0 .. self._nrows - 1 |->
                                [c \in 0 .. self._ncols - 1 |-> None]]]

\* is_done()
ConnectMBoardMock_is_done(self) == self._nummoves = self._m

\* get_winner()
ConnectMBoardMock_get_winner(self) ==
    IF self._nummoves = self._m
    THEN IF self._m % 2 = 0 THEN "RED" ELSE "YELLOW"
    ELSE None

\* What get_winner() and is_done() read when a call on the mock is made.
MockBefore(self) ==
    [winner |-> ConnectMBoardMock_get_winner(self),
     done |-> ConnectMBoardMock_is_done(self)]

\* mock = ConnectMBoardMock(nrows, ncols, m) with positive arguments: the
\* caller holds the mock; there is no ConnectM object. drops counts the
\* drop calls that returned.
InitMock ==
    /\ \E nrows \in 1 .. MaxRows, ncols \in 1 .. MaxCols, mm \in 1 .. MaxMockM :
        locals = [mock |-> ConnectMBoardMock_init(nrows, ncols, mm),
                  drops |-> 0]
    /\ pc = 0
    /\ _nrows = 0 /\ _ncols = 0 /\ _m = 0
    /\ _board = <<>>
    /\ _top = <<>>
    /\ _winner = None
    /\ last = [op |-> "__init__", col |-> 0, color |-> None, ret |-> "None",
               was |-> [winner |-> None, done |-> FALSE]]

\* The column arguments a caller passes to a mock.
MockColArgs ==
    (-locals.mock._ncols - OutOfRange) .. (locals.mock._ncols - 1 + OutOfRange)

\* mock.can_drop(col)
MockCanDrop ==
    /\ last.op = "idle"
    /\ \E col \in MockColArgs :
        last' = [op |-> "mock.can_drop", col |-> col, color |-> None,
                 ret |-> ConnectMBoardMock_can_drop(locals.mock, col),
                 was |-> MockBefore(locals.mock)]
    /\ UNCHANGED <<_nrows, _ncols, _m, _board, _top, _winner, pc, locals>>

\* mock.drop_wins(col, color)
MockDropWins ==
    /\ last.op = "idle"
    /\ \E col \in MockColArgs, color \in PieceColor :
        last' = [op |-> "mock.drop_wins", col |-> col, color |-> color,
                 ret |-> ConnectMBoardMock_drop_wins(locals.mock, col, color),
                 was |-> MockBefore(locals.mock)]
    /\ UNCHANGED <<_nrows, _ncols, _m, _board, _top, _winner, pc, locals>>

\* mock.drop(col, color)
MockDrop ==
    /\ last.op = "idle"
    /\ locals.mock._nummoves < MaxMockMoves
    /\ \E col \in MockColArgs, color \in PieceColor :
        LET r == ConnectMBoardMock_drop(locals.mock, col, color)
        IN  /\ last' = [op |-> "mock.drop", col |-> col, color |-> color,
                        ret |-> r.ret, was |-> MockBefore(locals.mock)]
            /\ locals' = [mock |-> r.self,
                          drops |-> IF r.ret = "None" THEN locals.drops + 1
                                    ELSE locals.drops]
    /\ UNCHANGED <<_nrows, _ncols, _m, _board, _top, _winner, pc>>

\* mock.reset()
MockReset ==
    /\ last.op = "idle"
    /\ last' = [op |-> "mock.reset", col |-> 0, color |-> None,
                ret |-> "None", was |-> MockBefore(locals.mock)]
    /\ locals' = [locals EXCEPT !.mock = ConnectMBoardMock_reset(@)]
    /\ UNCHANGED <<_nrows, _ncols, _m, _board, _top, _winner, pc>>

NextMock == MockCanDrop \/ MockDropWins \/ MockDrop \/ MockReset \/ Return

SpecMock == InitMock /\ [][NextMock]_vars

\* ------------------------------------------------------------- properties
Rows == 0 .. _nrows - 1
Cols == 0 .. _ncols - 1

\* The number of non-empty cells of column c, counted on the grid.
ColumnCount(c) == Cardinality({r \in Rows : grid[r][c] # None})

\* The number of pieces on the board.
TotalPieces == Cardinality({rc \in Rows \X Cols : grid[rc[1]][rc[2]] # None})

\* C1: gravity invariant. In every reachable state, for every column c,
\* _top[c] is between 0 and num_rows, equals the number of non-empty cells
\* of column c, and the non-empty cells are exactly rows 0 .. _top[c]-1
\* counted from the bottom.
C1_Gravity ==
    \A c \in Cols :
        /\ 0 <= _top[c] /\ _top[c] <= num_rows
        /\ _top[c] = ColumnCount(c)
        /\ \A row \in Rows : (_get(_board, row, c) # None) <=> (row < _top[c])

\* A board with a full column, a partly filled one and an empty one, reached
\* by drops and queried by drop_wins.
C1_Witness ==
    /\ last.op = "drop_wins" /\ last.col \in Cols /\ last.ret = "True"
    /\ \E c1, c2, c3 \in Cols :
        /\ _top[c1] = num_rows
        /\ 0 < _top[c2] /\ _top[c2] < num_rows
        /\ _top[c3] = 0

\* C2: a successful drop(col, color) changes exactly one cell, the lowest
\* empty cell of column col (row _top[col] from the bottom), which becomes
\* color; _top[col] grows by one; every other cell and column height is
\* unchanged; and no call but reset moves or recolours a placed piece.
C2_DropOneCell ==
    [][/\ (last'.op = "drop" /\ last'.ret = "None") =>
            /\ last'.col \in Cols
            /\ LET col == last'.col
                   row == _top[col]
               IN  /\ _get(_board, row, col) = None
                   /\ \A r \in 0 .. row - 1 : _get(_board, r, col) # None
                   /\ _get(_board', row, col) = last'.color
                   /\ _top'[col] = _top[col] + 1
                   /\ \A r \in Rows, c \in Cols :
                        <<r, c>> # <<row, col>> =>
                            _get(_board', r, c) = _get(_board, r, c)
                   /\ \A c \in Cols \ {col} : _top'[c] = _top[c]
       /\ last'.op # "reset" =>
            \A r \in Rows, c \in Cols :
                _get(_board, r, c) # None =>
                    _get(_board', r, c) = _get(_board, r, c)
      ]_vars

\* A successful drop onto a column that already held a piece, beside another
\* non-empty column.
C2_Witness ==
    /\ last.op = "drop" /\ last.ret = "None"
    /\ _top[last.col] >= 2
    /\ \E c \in Cols \ {last.col} : _top[c] >= 1

\* C3: for every column in [0, num_cols), can_drop(col) is True iff the
\* column holds fewer than num_rows pieces; once it holds num_rows pieces
\* can_drop(col) is False and a further drop into it fails.
C3_CanDropIffNotFull ==
    /\ \A col \in Cols :
        /\ can_drop(col) = BoolRet(ColumnCount(col) < num_rows)
        /\ ColumnCount(col) = num_rows =>
             \A color \in PieceColor : drop(col, color).ret = "ValueError"
    /\ (last.op = "can_drop" /\ last.col \in Cols) =>
         last.ret = BoolRet(ColumnCount(last.col) < num_rows)

\* can_drop answered False for a column filled by num_rows drops.
C3_Witness ==
    /\ last.op = "can_drop" /\ last.ret = "False"
    /\ last.col \in Cols
    /\ num_rows >= 2
    /\ ColumnCount(last.col) = num_rows

\* C4: drop(col, color) on a full column in range raises ValueError and
\* leaves the grid, every column height and winner as they were.
C4_DropFullColumn ==
    [][(/\ last'.op = "drop"
        /\ last'.col \in Cols
        /\ ColumnCount(last'.col) = num_rows) =>
            /\ last'.ret = "ValueError"
            /\ grid' = grid
            /\ _top' = _top
            /\ winner' = winner
      ]_vars

\* A drop on a full column of a board with no winner raised ValueError.
C4_Witness ==
    /\ last.op = "drop" /\ last.ret = "ValueError"
    /\ last.col \in Cols
    /\ ColumnCount(last.col) = num_rows
    /\ winner = None

C6_DropOutOfRangeValueError ==
    [][(last'.op = "drop" /\ last'.col \notin Cols) =>
            /\ last'.ret = "ValueError"
            /\ grid' = grid /\ _top' = _top /\ winner' = winner
      ]_vars

\* C7: drop_wins is side-effect-free. Through any run of consecutive
\* drop_wins calls (each followed by the caller taking its result), whatever
\* they return or raise, the grid, every column height, winner and done keep
\* their values.
C7_DropWinsNoEffect ==
    [][last'.op \in {"drop_wins", "idle"} =>
            /\ grid' = grid
            /\ _top' = _top
            /\ winner' = winner
            /\ done' = done
      ]_vars

\* drop_wins answered True on a board with pieces and no winner.
C7_Witness ==
    /\ last.op = "drop_wins" /\ last.ret = "True"
    /\ last.col \in Cols
    /\ winner = None
    /\ TotalPieces >= 2

C9_DropWinsPredictsDrop ==
    [][(/\ last'.op = "drop" /\ last'.ret = "None"
        /\ winner = None) =>
            LET predicted == drop_wins(last'.col, last'.color).ret
            IN  /\ predicted \in {"True", "False"}
                /\ (predicted = "True") <=> (winner' = last'.color)
                /\ (predicted = "False") => (winner' = None)
      ]_vars

\* The m-th piece on the board, all of one colour, has just been dropped and
\* made that colour the winner (no winner can exist with fewer pieces).
C9_Witness ==
    /\ last.op = "drop" /\ last.ret = "None"
    /\ m >= 2
    /\ TotalPieces = m
    /\ winner = last.color

\* The four lines through a cell: row, column, diagonal /, diagonal \.
Lines == {<<0, 1>>, <<1, 0>>, <<1, 1>>, <<1, -1>>}

\* The colour at (row, col), rows counted from the bottom, read from the
\* grid; "off" for coordinates off the board, which matches no colour.
CellAt(row, col) ==
    IF row \in Rows /\ col \in Cols THEN grid[(num_rows - 1) - row][col]
    ELSE "off"

\* Reference definition of a win at (row, col): on one of the four lines
\* there are m consecutive cells, the cell among them, all on the board and
\* all of the cell's colour.
RunThrough(row, col) ==
    \E d \in Lines : \E k \in 0 .. m - 1 :
        \A i \in 0 .. m - 1 :
            CellAt(row + (i - k) * d[1], col + (i - k) * d[2])
                = CellAt(row, col)

\* The length of the run of the cell's colour from (row, col) in direction
\* (dr, dc), the cell not counted and no cap applied.
Reach(row, col, dr, dc) ==
    Cardinality({k \in 1 .. (num_rows + num_cols) :
        \A j \in 1 .. k :
            CellAt(row + j * dr, col + j * dc) = CellAt(row, col)})

\* The win test with uncapped direction counts.
UncappedWin(row, col) ==
    \E d \in Lines :
        Reach(row, col, d[1], d[2]) + 1 + Reach(row, col, -d[1], -d[2]) >= m

\* C10: for every board and every occupied cell (row, col),
\* _winner_at(row, col) is True iff one of the four lines through the cell
\* holds m or more contiguous cells of its colour, the cell included;
\* off-board coordinates match nothing; and the cap of m-1 on each
\* direction count does not change the result. (Every reachable board is
\* also the board of a state in which the caller has taken the last result,
\* Return leaving the board as it is: the boards are compared there.)
C10_WinnerAtCorrect ==
    last.op = "idle" =>
        \A row \in Rows, col \in Cols :
            CellAt(row, col) # None =>
                /\ _winner_at(_board, row, col) <=> RunThrough(row, col)
                /\ _winner_at(_board, row, col) <=> UncappedWin(row, col)

\* A winning cell in the middle of a diagonal run: no direction alone counts
\* m-1, the two sides of the diagonal add up to it.
C10_Witness ==
    /\ m = 3
    /\ \E row \in Rows, col \in Cols :
        /\ CellAt(row, col) # None
        /\ _winner_at(_board, row, col)
        /\ \A d \in dirs : adj_dir(_board, row, col, d[1], d[2]) < m - 1
        /\ adj_dir(_board, row, col, 1, -1) = 1
        /\ adj_dir(_board, row, col, -1, 1) = 1

\* Some cell of the given colour lies on a run of m of that colour.
AnyRun(color) ==
    \E row \in Rows, col \in Cols :
        CellAt(row, col) = color /\ RunThrough(row, col)

\* C11: the scan at the cell just filled is equivalent to a scan of the
\* whole board. In every reachable state winner is non-None iff somewhere
\* on the board there is a horizontal, vertical or diagonal run of at least
\* m pieces of one colour, and when winner is a colour the board holds a run
\* of that colour. (Compared in the states where the caller has taken the
\* last result; Return leaves board and winner as they are.)
C11_LocalScanIsFullScan ==
    last.op = "idle" =>
        /\ (winner # None) <=> (\E color \in PieceColor : AnyRun(color))
        /\ winner # None => AnyRun(winner)

\* A drop between two pieces already on the board has just completed the
\* first run and set the winner.
C11_Witness ==
    /\ last.op = "drop" /\ last.ret = "None"
    /\ last.was.winner = None
    /\ winner = last.color
    /\ m = 3
    /\ \A d \in dirs :
        adj_dir(_board, _top[last.col] - 1, last.col, d[1], d[2]) < m - 1

\* C12 as stated: winner is set exactly once. Once winner is a colour it
\* keeps that colour under every later call but reset, a later drop of the
\* other colour that completes a run included.
C12_WinnerSetOnce ==
    [][(winner # None /\ last'.op # "reset") => winner' = winner]_vars

\* C13: a drop that completes no run through the cell it fills never
\* changes winner; and no drop or drop_wins call sets a non-None winner back
\* to None.
C13_NonWinningDropKeepsWinner ==
    [][/\ (/\ last'.op = "drop" /\ last'.ret = "None"
           /\ ~(RunThrough(_top[last.col] - 1, last.col))') =>
                winner' = winner
       /\ (winner # None /\ last'.op \in {"drop", "drop_wins"}) =>
                winner' # None
      ]_vars

\* A drop of the other colour on a board that has a winner completed no run
\* and left the winner as it was.
C13_Witness ==
    /\ last.op = "drop" /\ last.ret = "None"
    /\ last.was.winner # None
    /\ last.color # last.was.winner
    /\ ~RunThrough(_top[last.col] - 1, last.col)
    /\ winner = last.was.winner

\* C14: in every reachable state done is True iff winner is non-None or
\* every column holds num_rows pieces; a done board with winner None is a
\* draw.
C14_DoneIff ==
    done <=> (winner # None \/ \A c \in Cols : ColumnCount(c) = num_rows)

\* A draw: a drop has just filled the board and there is no winner.
C14_Witness ==
    /\ last.op = "drop" /\ last.ret = "None"
    /\ ~last.was.done
    /\ done
    /\ winner = None
    /\ m >= 2

\* C15: once done is True it stays True through every later drop attempt,
\* successful or failing, and every drop_wins call; only reset makes it
\* False again.
C15_DoneIsTerminal ==
    [][/\ (done /\ last'.op # "reset") => done'
       /\ (done /\ ~done') => last'.op = "reset"
      ]_vars

\* A drop succeeded on a board that was done by a win and not full, and
\* the board is still done.
C15_Witness ==
    /\ last.op = "drop" /\ last.ret = "None"
    /\ last.was.done
    /\ last.was.winner # last.color
    /\ done

\* What a caller can observe of a board that holds no piece: a grid of
\* num_rows rows of num_cols cells, all empty, no winner, not done, every
\* column droppable; and the fields behind it.
Fresh ==
    /\ DOMAIN grid = 0 .. num_rows - 1
    /\ \A r \in DOMAIN grid : DOMAIN grid[r] = 0 .. num_cols - 1
    /\ \A r \in DOMAIN grid : \A c \in DOMAIN grid[r] : grid[r][c] = None
    /\ winner = None
    /\ ~done
    /\ \A c \in 0 .. num_cols - 1 : can_drop(c) = "True"
    /\ \A c \in 0 .. num_cols - 1 : _top[c] = 0

\* C16: for all positive rows, cols, m with rows >= m and cols >= m, a
\* freshly constructed board has done False, winner None, a grid of
\* rows x cols cells that are all empty, and can_drop True for every column.
C16_FreshBoard ==
    last.op = "__init__" =>
        /\ num_rows >= m /\ num_cols >= m /\ m >= 1
        /\ Fresh

\* A board just constructed with fewer rows than columns and m below both.
C16_Witness ==
    /\ last.op = "__init__"
    /\ num_rows < num_cols
    /\ m < num_rows
    /\ Fresh

\* C17: reset returns any reachable state (playing, won, drawn) to the
\* initial one: the dimensions and m are kept, all cells are empty, every
\* column height is 0, winner is None and done is False, that is, every
\* field equals the field of a newly constructed board of the same
\* dimensions, so no later sequence of operations tells the two apart.
C17_ResetRestoresInitial ==
    [][last'.op = "reset" =>
        /\ <<_nrows, _ncols, _m>>' = <<_nrows, _ncols, _m>>
        /\ Fresh'
        /\ _board' = [r \in 0 .. _nrows - 1 |-> [c \in 0 .. _ncols - 1 |-> None]]
        /\ _top' = [c \in 0 .. _ncols - 1 |-> 0]
        /\ _winner' = None
      ]_vars

\* reset has just been called on a board that was done by a win.
C17_Witness ==
    /\ last.op = "reset"
    /\ last.was.done
    /\ last.was.winner # None
    /\ m >= 2
    /\ Fresh

\* The board holds exactly k pieces, all of the given colour, stacked in
\* column c: the board k drops of that colour into c leave from empty.
Stacked(c, color, k) ==
    /\ \A r \in 0 .. k - 1 : CellAt(r, c) = color
    /\ TotalPieces = k

\* C18: starting from an empty board, dropping m pieces of one colour
\* consecutively into the same column leaves winner None and done False
\* after each of the first m-1 drops, and sets winner to that colour and
\* done to True on the m-th drop.
C18_ColumnOfM ==
    LET k == TotalPieces
    IN  k \in 1 .. m =>
            \A c \in Cols, color \in PieceColor :
                Stacked(c, color, k) =>
                    IF k < m THEN winner = None /\ ~done
                    ELSE winner = color /\ done

\* The third drop of one colour into one column of an empty board with
\* m = 3 has just set the winner.
C18_Witness ==
    /\ last.op = "drop" /\ last.ret = "None"
    /\ m = 3
    /\ last.col \in Cols
    /\ Stacked(last.col, last.color, m)
    /\ last.was.winner = None /\ ~last.was.done
    /\ winner = last.color /\ done

\* C19: every reachable board that is completely full and contains no run
\* of m same-coloured pieces in any row, column or diagonal has done True
\* and winner None (a draw).
C19_FullBoardDraw ==
    ((\A c \in Cols : ColumnCount(c) = num_rows)
        /\ ~(\E color \in PieceColor : AnyRun(color)))
    => (done /\ winner = None)

\* A full 3 x 3 board with m = 3 and no run of three: a draw.
C19_Witness ==
    /\ num_rows = 3 /\ num_cols = 3 /\ m = 3
    /\ \A c \in Cols : ColumnCount(c) = num_rows
    /\ ~(\E color \in PieceColor : AnyRun(color))
    /\ done /\ winner = None

\* m RED cells in a row in column col, (row, col) among them.
ColumnRunOfRed(row, col) ==
    \E k \in 0 .. m - 1 :
        \A i \in 0 .. m - 1 : CellAt(row + (i - k), col) = "RED"

\* m RED cells in a row on one of the two diagonals through (row, col).
DiagonalRunOfRed(row, col) ==
    \E d \in {<<1, 1>>, <<1, -1>>} : \E k \in 0 .. m - 1 :
        \A i \in 0 .. m - 1 :
            CellAt(row + (i - k) * d[1], col + (i - k) * d[2]) = "RED"

\* The sample board once its fifteen drops are made: no winner, columns
\* 0-3 droppable and column 4 not, drop_wins True only for (2, RED).
SampleBoardFacts ==
    /\ winner = None
    /\ ~done
    /\ \A c \in 0 .. 3 : can_drop(c) = "True"
    /\ can_drop(4) = "False"
    /\ \A c \in Cols, color \in PieceColor :
        drop_wins(c, color).ret = "True" <=> (c = 2 /\ color = "RED")

\* C20 as stated: on the sample board, dropping RED into column 2 completes
\* a diagonal and sets winner to RED with done True.
C20_SampleBoardDiagonal ==
    /\ pc = Len(sample_drops) => SampleBoardFacts
    /\ pc = Len(test_win) =>
        /\ winner = "RED" /\ done
        /\ DiagonalRunOfRed(3, 2)

\* C20, amended: every drop of the sample board succeeds; after the fifteen
\* drops the board has no winner, columns 0-3 are droppable and column 4 is
\* not, and drop_wins is True only for (column 2, RED); dropping RED into
\* column 2 then completes a vertical run (four RED in column 2, rows 0-3),
\* no diagonal, and sets winner to RED with done True.
C20_SampleBoardColumn ==
    /\ pc # -1
    /\ pc = Len(sample_drops) => SampleBoardFacts
    /\ pc = Len(test_win) =>
        /\ winner = "RED" /\ done
        /\ ColumnRunOfRed(3, 2)
        /\ ~DiagonalRunOfRed(3, 2)

\* RED has just been dropped into column 2 of the sample board, landed on
\* row 3 and won.
C20_Witness ==
    /\ pc = Len(test_win)
    /\ last.op = "drop" /\ last.ret = "None"
    /\ last.col = 2 /\ last.color = "RED"
    /\ _top[2] = 4
    /\ last.was.winner = None /\ ~last.was.done
    /\ winner = "RED" /\ done

\* C21: grid orientation. grid has num_rows rows of num_cols cells with
\* index 0 the top row: a successful drop of a colour into column c, the
\* k-th into that column, puts the colour at grid[num_rows - k][c] and
\* changes no other cell; and in every state the cells grid[num_rows - k][c]
\* with k above the number of pieces dropped into c read None.
C21_GridOrientation ==
    [][/\ (last'.op = "drop" /\ last'.ret = "None") =>
            LET c == last'.col
                k == _top'[c]
            IN  /\ k = _top[c] + 1
                /\ k \in 1 .. num_rows
                /\ grid'[num_rows - k][c] = last'.color
                /\ \A r \in Rows, cc \in Cols :
                    <<r, cc>> # <<num_rows - k, c>> =>
                        grid'[r][cc] = grid[r][cc]
       /\ (/\ DOMAIN grid = 0 .. num_rows - 1
           /\ \A r \in Rows : DOMAIN grid[r] = 0 .. num_cols - 1
           /\ \A c \in Cols : \A k \in 1 .. num_rows :
                IF k > _top[c] THEN grid[num_rows - k][c] = None
                ELSE grid[num_rows - k][c] \in PieceColor)'
      ]_vars

\* The third piece dropped into a column of a board of three rows is in the
\* top row, grid[0], with the first two below it and an empty column beside.
C21_Witness ==
    /\ last.op = "drop" /\ last.ret = "None"
    /\ num_rows = 3 /\ num_cols >= 2
    /\ _top[last.col] = 3
    /\ grid[0][last.col] = last.color
    /\ grid[2][last.col] # last.color
    /\ \E c \in Cols : _top[c] = 0 /\ grid[2][c] = None

\* C22: grid returns a snapshot copy. A modification the caller makes to a
\* grid it was given changes neither the board's cells, nor the column
\* heights, nor winner, nor done, nor what a later grid, can_drop, drop_wins
\* or drop call returns or does.
C22_GridIsSnapshot ==
    [][last'.op = "setitem" =>
        /\ _board' = _board
        /\ _top' = _top
        /\ winner' = winner
        /\ done' = done
        /\ grid_object' = grid_object
        /\ \A col \in ColArgs :
            /\ can_drop(col)' = can_drop(col)
            /\ \A color \in PieceColor :
                /\ drop_wins(col, color)' = drop_wins(col, color)
                /\ drop(col, color)' = drop(col, color)
      ]_vars

\* The caller has overwritten a piece in its copy of a board that holds
\* pieces; the copy now differs from the board.
C22_Witness ==
    /\ last.op = "setitem"
    /\ ~locals.grid.shared
    /\ locals.grid.cells # _board
    /\ \E c \in Cols : _top[c] >= 1 /\ locals.grid.cells[num_rows - 1][c] = None
    /\ last.color = None

\* C23: for all positive rows, cols, m, the construction
\* ConnectM(rows, cols, m) fails with ValueError iff rows < m or cols < m;
\* when it succeeds num_rows, num_cols and m report the given values, and
\* go on reporting them whatever is called afterwards.
C23_Construction ==
    LET invalid == locals.nrows < locals.m \/ locals.ncols < locals.m
    IN  /\ pc \in {-1, 0, 1}
        /\ pc = -1 => (invalid /\ last.op = "__init__"
                               /\ last.ret = "ValueError")
        /\ pc = 1 => /\ ~invalid
                     /\ num_rows = locals.nrows
                     /\ num_cols = locals.ncols
                     /\ m = locals.m
                     /\ ~(last.op = "__init__" /\ last.ret = "ValueError")

\* A construction with enough rows and too few columns has failed.
C23_Witness ==
    /\ pc = -1
    /\ last.op = "__init__" /\ last.ret = "ValueError"
    /\ locals.nrows >= locals.m
    /\ locals.ncols < locals.m

\* The columns in [0, num_cols) that are not full, counted on the grid.
Droppable == {c \in Cols : ColumnCount(c) < num_rows}

\* The droppable columns where drop_wins(c, color) is True.
WinningCols(color) ==
    {c \in Cols : can_drop(c) = "True" /\ drop_wins(c, color).ret = "True"}

\* The smallest element of a non-empty set of columns.
Smallest(S) == CHOOSE x \in S : \A y \in S : x <= y

\* C24: RandomBot.suggest_move, on a board with at least one droppable
\* column, returns only a column c in [0, num_cols) with can_drop(c) True,
\* and every droppable column is a possible result; when exactly one column
\* is droppable it returns that column. (The bot is called by a caller that
\* has taken its last result; the call leaves the board as it is, so the
\* column recorded in last is compared with the same board.)
C24_RandomBotSuggests ==
    /\ last.op = "idle" =>
        LET r == RandomBot_suggest_move
        IN  Droppable # {} =>
                /\ r.exc = "None"
                /\ r.cols = Droppable
                /\ \A c \in r.cols : c \in 0 .. num_cols - 1
                                     /\ can_drop(c) = "True"
                /\ \A c \in Droppable : Droppable = {c} => r.cols = {c}
    /\ (last.op = "RandomBot.suggest_move" /\ last.ret = "int") =>
            last.col \in Droppable

\* A RandomBot has returned the one droppable column of a board of three
\* columns.
C24_Witness ==
    /\ last.op = "RandomBot.suggest_move" /\ last.ret = "int"
    /\ num_cols = 3
    /\ Droppable = {last.col}
    /\ winner = None

\* C25: SmartBot win priority. Whenever some droppable column c has
\* drop_wins(c, own colour) True, SmartBot.suggest_move returns the smallest
\* such column and no other, whatever the opponent could win in lower or
\* higher columns.
C25_SmartBotWinFirst ==
    last.op = "idle" =>
        \A cc \in BotColors :
            LET r == SmartBot_suggest_move(cc[1], cc[2])
            IN  WinningCols(cc[1]) # {} =>
                    /\ r.exc = "None"
                    /\ r.cols = {Smallest(WinningCols(cc[1]))}

\* A SmartBot has returned its winning column although the opponent could
\* win in a lower column.
C25_Witness ==
    /\ last.op = "SmartBot.suggest_move" /\ last.ret = "int"
    /\ WinningCols(last.color) # {}
    /\ last.col = Smallest(WinningCols(last.color))
    /\ \E c \in Cols, cc \in BotColors :
        /\ cc[1] = last.color
        /\ c < last.col
        /\ c \in WinningCols(cc[2])
    /\ winner = None

\* C26: SmartBot block rule. When no droppable column wins for the bot's
\* own colour but at least one droppable column c has drop_wins(c, opponent
\* colour) True, SmartBot.suggest_move returns the smallest such column and
\* no other.
C26_SmartBotBlocks ==
    last.op = "idle" =>
        \A cc \in BotColors :
            LET r == SmartBot_suggest_move(cc[1], cc[2])
            IN  (WinningCols(cc[1]) = {} /\ WinningCols(cc[2]) # {}) =>
                    /\ r.exc = "None"
                    /\ r.cols = {Smallest(WinningCols(cc[2]))}

\* A SmartBot that cannot win has returned the first of two or more
\* blocking columns.
C26_Witness ==
    /\ last.op = "SmartBot.suggest_move" /\ last.ret = "int"
    /\ WinningCols(last.color) = {}
    /\ \E cc \in BotColors :
        /\ cc[1] = last.color
        /\ Cardinality(WinningCols(cc[2])) >= 2
        /\ last.col = Smallest(WinningCols(cc[2]))
    /\ winner = None

\* C27 as stated: when no droppable column wins for either colour,
\* SmartBot.suggest_move returns a droppable column, never a non-droppable
\* one, and every droppable column is a possible result.
C27_SmartBotFallbackReturns ==
    last.op = "idle" =>
        \A cc \in BotColors :
            LET r == SmartBot_suggest_move(cc[1], cc[2])
            IN  (WinningCols(cc[1]) = {} /\ WinningCols(cc[2]) = {}) =>
                    /\ r.exc = "None"
                    /\ r.cols # {}
                    /\ r.cols = Droppable

\* C27, amended: when no droppable column wins for either colour and at
\* least one column is droppable, SmartBot.suggest_move returns a droppable
\* column, never a non-droppable one, and every droppable column is a
\* possible result; when no column is droppable (the board is full) it
\* returns nothing and raises IndexError.
C27_SmartBotFallback ==
    last.op = "idle" =>
        \A cc \in BotColors :
            LET r == SmartBot_suggest_move(cc[1], cc[2])
            IN  (WinningCols(cc[1]) = {} /\ WinningCols(cc[2]) = {}) =>
                    IF Droppable # {}
                    THEN r.exc = "None" /\ r.cols = Droppable
                    ELSE r.exc = "IndexError" /\ r.cols = {}

\* A SmartBot with nothing to win or block has returned one of two or more
\* droppable columns of a board that also has a full column.
C27_Witness ==
    /\ last.op = "SmartBot.suggest_move" /\ last.ret = "int"
    /\ \A color \in PieceColor : WinningCols(color) = {}
    /\ Cardinality(Droppable) >= 2
    /\ Droppable # Cols
    /\ last.col \in Droppable
    /\ last.col # Smallest(Droppable)

\* C28: policies are read-only. A call to RandomBot.suggest_move or
\* SmartBot.suggest_move leaves the grid, every column height, winner and
\* done exactly as before the call.
C28_PoliciesReadOnly ==
    [][last'.op \in {"RandomBot.suggest_move", "SmartBot.suggest_move"} =>
        /\ grid' = grid
        /\ _top' = _top
        /\ winner' = winner
        /\ done' = done
      ]_vars

\* A SmartBot has gone through at least two droppable columns of a board
\* in play, calling drop_wins for both colours, and returned.
C28_Witness ==
    /\ last.op = "SmartBot.suggest_move" /\ last.ret = "int"
    /\ last.col >= 1
    /\ 0 \in Droppable
    /\ TotalPieces >= 2
    /\ ~done

\* C29 as stated: a reader running concurrently with a drop_wins call never
\* observes the temporarily placed piece: every grid snapshot contains only
\* pieces placed by drop, that is, none at or above the height of its
\* column (heights only grow here: the owner does not reset).
C29_NoReaderSeesTemporaryPiece ==
    locals.grid.cells # <<>> =>
        \A r \in Rows, c \in Cols :
            locals.grid.cells[r][c] # None => (num_rows - 1) - r < _top[c]

\* The number of steps simulate still has before it, at most: two per free
\* cell of the current game, one to leave its loop, 2 * cells + 2 for each
\* game not begun, and one to leave the for loop.
SimRank ==
    LET cells == num_rows * num_cols
        after(game) == (locals.n - game) * (2 * cells + 2) + 1
    IN  CASE locals.at = "for" -> after(locals.game)
          [] locals.at = "while" ->
                after(locals.game + 1) + 1 + 2 * (cells - TotalPieces)
          [] locals.at = "drop" ->
                after(locals.game + 1) + 2 * (cells - TotalPieces)
          [] OTHER -> 0

\* C30: every game played by simulate on a ConnectM board, with any
\* combination of RandomBot and SmartBot, terminates: no call raises; each
\* position but the return has a next step, and every step takes SimRank, a
\* natural number, strictly down, so the steps are finitely many; the loop
\* makes at most num_rows * num_cols drops and is left with done True,
\* winner being a colour or None (tie).
C30_SimulateTerminates ==
    [][/\ locals.at \in {"for", "while", "drop"}
       /\ locals'.at \in {"for", "while", "drop", "returned"}
       /\ SimRank >= 0 /\ SimRank' >= 0
       /\ SimRank' < SimRank
       /\ locals'.at = "returned" => locals'.game = locals'.n
       /\ locals'.drops <= num_rows * num_cols
       /\ locals'.at # "for" => locals'.drops = TotalPieces'
       /\ (locals.at = "while" /\ locals'.at = "for") =>
            (done /\ winner \in PieceColor \cup {None})
      ]_vars

\* simulate has returned after two games, a tie on a full board of at
\* least four cells among them.
C30_Witness ==
    /\ locals.at = "returned"
    /\ locals.n = 2
    /\ locals.wins["YELLOW"] + locals.wins["RED"] < 2
    /\ num_rows * num_cols >= 4
    /\ "smart" \in {locals.bots[c] : c \in PieceColor}

\* C31: in simulate, suggest_move is invoked only on a board that is not
\* done, which has at least one droppable column; it never raises; the
\* column it returns is in [0, num_cols) and droppable; and the drop that
\* follows never raises.
C31_SimulateMovesAreLegal ==
    /\ locals.at # "raised"
    /\ (locals.at = "while" /\ ~done) => Droppable # {}
    /\ locals.at = "drop" =>
        /\ last.op = "suggest_move" /\ last.ret = "int"
        /\ ~last.was.done
        /\ locals.column = last.col
        /\ locals.column \in 0 .. num_cols - 1
        /\ locals.column \in Droppable
        /\ can_drop(locals.column) = "True"
        /\ drop(locals.column, locals.current).ret = "None"
    /\ last.op = "drop" => last.ret = "None"
    /\ last.op = "suggest_move" => last.ret = "int"

\* A SmartBot playing YELLOW has suggested the only droppable column of a
\* board of nine cells, and the drop has been made and has filled the
\* board.
C31_Witness ==
    /\ last.op = "drop" /\ last.ret = "None"
    /\ locals.bots["YELLOW"] = "smart" /\ last.color = "YELLOW"
    /\ num_rows * num_cols = 9
    /\ TotalPieces = num_rows * num_cols

\* A piece of the given colour dropped in column c would lie on a line of m
\* consecutive cells of the board whose other cells all hold that colour.
WouldComplete(c, color) ==
    /\ c \in Cols
    /\ ColumnCount(c) < num_rows
    /\ \E d \in Lines : \E k \in 0 .. m - 1 :
        \A i \in 0 .. m - 1 :
            \/ i = k
            \/ CellAt(ColumnCount(c) + (i - k) * d[1], c + (i - k) * d[2])
                    = color

\* C33: in a simulated game, whenever it is a SmartBot's turn and some
\* droppable column would complete a run for its colour, the bot suggests
\* such a column, and the drop that follows ends the game: it sets winner
\* to the bot's colour and done to True, and the game loop is left at its
\* next test.
C33_SmartBotTakesWin ==
    [][LET smart == locals.bots[locals.current] = "smart"
           wins == \E c \in Cols : WouldComplete(c, locals.current)
       IN  /\ (locals.at = "while" /\ ~done /\ smart /\ wins) =>
                /\ locals'.at = "drop"
                /\ WouldComplete(locals'.column, locals.current)
                /\ UNCHANGED <<_board, _top, _winner>>
           /\ (locals.at = "drop" /\ smart /\ wins) =>
                /\ last'.op = "drop" /\ last'.ret = "None"
                /\ winner' = locals.current
                /\ done'
                /\ TotalPieces' = TotalPieces + 1
                /\ locals'.at = "while"
           /\ (locals.at = "while" /\ done) =>
                /\ locals'.at = "for"
                /\ locals'.game = locals.game + 1
      ]_vars

\* A SmartBot has just won a game of three in a row with a drop that was
\* not the only move it had.
C33_Witness ==
    /\ last.op = "drop" /\ last.ret = "None"
    /\ locals.bots[last.color] = "smart"
    /\ last.was.winner = None
    /\ winner = last.color
    /\ m = 3
    /\ Cardinality(Droppable) >= 2

\* C34: each of the n games simulate runs on the one board starts from a
\* fully reset board (all cells empty, winner None, done False, every
\* column droppable) with YELLOW to move, whatever the board held before;
\* the first piece of a game is YELLOW's; and each finished game adds
\* exactly one to the tally of its winner and nothing to any tally on a
\* tie, the tallies never adding up to more than the games finished.
C34_GamesStartResetAndTally ==
    [][/\ (locals.at = "for" /\ locals'.at = "while") =>
            /\ last'.op = "reset"
            /\ Fresh'
            /\ TotalPieces' = 0
            /\ locals'.current = "YELLOW"
            /\ locals'.wins = locals.wins
            /\ <<_nrows, _ncols, _m>>' = <<_nrows, _ncols, _m>>
       /\ (locals.at = "drop" /\ TotalPieces = 0) =>
            locals.current = "YELLOW"
       /\ (locals.at = "while" /\ locals'.at = "for") =>
            /\ locals'.game = locals.game + 1
            /\ \A c \in PieceColor :
                locals'.wins[c] =
                    locals.wins[c] + (IF winner = c THEN 1 ELSE 0)
            /\ locals'.wins["YELLOW"] + locals'.wins["RED"] <= locals'.game
            /\ winner = None => locals'.wins = locals.wins
       /\ ~(locals.at = "while" /\ locals'.at = "for") =>
            locals'.wins = locals.wins
      ]_vars

\* The second game of a simulation has just been started by a reset of a
\* board the first game left won by RED, RED's tally being one.
C34_Witness ==
    /\ locals.at = "while"
    /\ last.op = "reset"
    /\ locals.game = 1
    /\ last.was.winner = "RED"
    /\ locals.wins["RED"] = 1
    /\ locals.wins["YELLOW"] = 0
    /\ m >= 2
    /\ Fresh

\* The winner a mock constructed with m announces.
MockWinner(mm) == IF mm % 2 = 0 THEN "RED" ELSE "YELLOW"

\* C38: ConnectMBoardMock ends the game after M moves: while fewer than M
\* drops have been made is_done() is False and get_winner() is None; once M
\* drops have been made is_done() is True and get_winner() is RED if M is
\* even and YELLOW otherwise, and this stays so under any further drop.
C38_MockEndsAfterM ==
    /\ locals.drops < locals.mock._m =>
        /\ ~ConnectMBoardMock_is_done(locals.mock)
        /\ ConnectMBoardMock_get_winner(locals.mock) = None
    /\ locals.drops >= locals.mock._m =>
        /\ ConnectMBoardMock_is_done(locals.mock)
        /\ ConnectMBoardMock_get_winner(locals.mock)
                = MockWinner(locals.mock._m)

\* C39: ConnectMBoardMock.reset returns the mock from any state to its
\* initial state: afterwards the bottom row is empty, can_drop is True for
\* every column, is_done() is False and get_winner() is None, and every
\* field is that of a new mock, so that the game again ends exactly M drops
\* later.
C39_MockResetRestoresInitial ==
    [][last'.op = "mock.reset" =>
        LET self == locals'.mock
        IN  /\ \A c \in 0 .. self._ncols - 1 :
                    /\ self._board[self._nrows - 1][c] = None
                    /\ ConnectMBoardMock_can_drop(self, c) = "True"
            /\ ~ConnectMBoardMock_is_done(self)
            /\ ConnectMBoardMock_get_winner(self) = None
            /\ self = ConnectMBoardMock_init(self._nrows, self._ncols, self._m)
      ]_vars

\* C36: for a human player, TUIPlayer.get_move returns only a column c with
\* 0 <= c < num_cols and can_drop(c) True, for every numeric text the user
\* may type, so the drop that follows in play_connect_4 never fails.
C36_HumanMoveIsLegal ==
    /\ (locals.at = "tui.drop" /\ locals.players[locals.current] = "human") =>
        /\ 0 <= locals.column /\ locals.column < num_cols
        /\ can_drop(locals.column) = "True"
    /\ (last.op = "drop" /\ locals.players[last.color] = "human") =>
        last.ret = "None"

\* The number of pieces of the given colour on the board.
PiecesOf(color) ==
    Cardinality({rc \in Rows \X Cols : grid[rc[1]][rc[2]] = color})

\* C32: turn alternation in the simulate and TUI game loops. YELLOW moves
\* first and colours alternate on every successful drop: at every point of
\* a game the number of YELLOW pieces minus the number of RED pieces is 0
\* or 1, the player to move is YELLOW when the numbers are equal and RED
\* otherwise, and the piece a drop has just placed is of the colour that
\* was to move.
C32_TurnsAlternate ==
    /\ PiecesOf("YELLOW") - PiecesOf("RED") \in {0, 1}
    /\ locals.at \in {"while", "drop", "tui.while", "tui.get_move", "tui.drop"} =>
        locals.current = IF PiecesOf("YELLOW") = PiecesOf("RED")
                         THEN "YELLOW" ELSE "RED"
    /\ (last.op = "drop" /\ last.ret = "None") =>
        last.color = IF PiecesOf("YELLOW") = PiecesOf("RED")
                     THEN "RED" ELSE "YELLOW"

\* In a TUI game of two humans on a board of nine cells, five pieces have
\* been dropped and RED is at the prompt.
C32_Witness ==
    /\ locals.at = "tui.get_move"
    /\ locals.players = [c \in PieceColor |-> "human"]
    /\ num_rows * num_cols = 9
    /\ TotalPieces = 5
    /\ locals.current = "RED"

\* C35: the mini-tui game loop play_connect_4 ends for every game: it is
\* left as soon as the board is done, whether a player has won or the board
\* has filled up with no winner, so the user is never asked for a column
\* on a board that is done.
C35_MiniTuiEnds ==
    /\ locals.at = "mini.input" => ~done
    /\ (last.op = "drop" /\ last.ret = "None" /\ done) =>
        locals.at = "mini.returned"

\* C37: in the GUI game loop, for a human player drop is invoked only with
\* a column in [0, num_cols) for which can_drop is True, whether the
\* column was chosen by key press or by mouse click; an illegal selection
\* is ignored: it raises nothing, no drop is made and the turn does not
\* pass, so a human's drop never fails.
C37_GuiHumanDropIsLegal ==
    /\ (locals.at = "gui.drop" /\ locals.players[locals.current] = "human") =>
        /\ locals.column[1] \in 0 .. num_cols - 1
        /\ can_drop(locals.column[1]) = "True"
    /\ (last.op = "drop" /\ locals.players[last.color] = "human") =>
        last.ret = "None"
    /\ locals.at # "gui.raised"

====
